---- MODULE Spec2Model ----
(***************************************************************************)
(* OpenDota MCP server: the natural-language query dispatcher              *)
(* (parseNaturalQuery), the call-tool request handler and the OpenDota     *)
(* client's request routine (OpenDotaClient.makeRequest).                  *)
(*                                                                         *)
(* Text is a sequence of one-character strings, so that the regular        *)
(* expressions of the dispatcher are matched character by character.       *)
(***************************************************************************)
EXTENDS Integers, Sequences, FiniteSets, TLC

VARIABLES query, parsed, calls, apiKey, nodeEnv

vars == <<query, parsed, calls, apiKey, nodeEnv>>

\* ------------------------------------------------------------------ bounds

\* Numeric identifiers written into the query texts range over 0..MaxN.
MaxN == 11

\* ------------------------------------------------------------- characters

DigitChars == <<"0", "1", "2", "3", "4", "5", "6", "7", "8", "9">>

\* \d of the regular expressions.
IsDigit(c) == \E k \in 1..10 : DigitChars[k] = c

\* \s of the regular expressions (the white space the inputs use).
IsWs(c) == c \in {" ", "\t", "\n"}

\* The quote class ["'] of playerNamePattern.
IsQuote(c) == c \in {"\"", "'"}

UpperChars == <<"A", "B", "C", "D", "E", "F", "G", "H", "I", "J", "K", "L", "M", "N", "O", "P", "Q", "R", "S", "T", "U", "V", "W", "X", "Y", "Z">>
LowerChars == <<"a", "b", "c", "d", "e", "f", "g", "h", "i", "j", "k", "l", "m", "n", "o", "p", "q", "r", "s", "t", "u", "v", "w", "x", "y", "z">>

\* Letter case folding of one character: the i flag of the patterns, and
\* String.prototype.toLowerCase on the letters A-Z.
Lower(c) == IF \E k \in 1..26 : UpperChars[k] = c
            THEN LowerChars[CHOOSE k \in 1..26 : UpperChars[k] = c]
            ELSE c

toLowerCase(s) == [k \in 1..Len(s) |-> Lower(s[k])]

\* --------------------------------------------------- regular expressions
\* A matcher maps a set P of positions (index of the next unread character)
\* to the set of positions reachable by matching one pattern element, which
\* is the backtracking search of the engine written as a set.

\* A keyword literal compared without the i flag.
Lit_caseSensitive(w, s, P) ==
  { p + Len(w) : p \in { q \in P : /\ q + Len(w) - 1 <= Len(s)
                                    /\ \A k \in 1..Len(w) : s[q + k - 1] = w[k] } }

\* A keyword literal w (lower case), compared case-insensitively.
Lit(w, s, P) ==
  { p + Len(w) : p \in { q \in P : /\ q + Len(w) - 1 <= Len(s)
                                    /\ \A k \in 1..Len(w) : Lower(s[q + k - 1]) = w[k] } }

\* \s+ : one or more white-space characters.
Ws1(s, P) ==
  { q \in 2..(Len(s) + 1) : \E p \in P : p < q /\ \A k \in p..(q - 1) : IsWs(s[k]) }

\* The end (exclusive) of the longest run of digits starting at p: a greedy \d+.
DigitRunEnd(s, p) ==
  CHOOSE q \in (p + 1)..(Len(s) + 1) :
    /\ \A k \in p..(q - 1) : IsDigit(s[k])
    /\ (q = Len(s) + 1 \/ ~IsDigit(s[q]))

\* (\d+) as the last element of a pattern: the captures <<from, to>> (to
\* exclusive) that start at a position of P.
DigitsCapture(s, P) ==
  { <<p, DigitRunEnd(s, p)>> : p \in { q \in P : q <= Len(s) /\ IsDigit(s[q]) } }

NoMatch == <<"no match">>

W_match == <<"m", "a", "t", "c", "h">>
W_game == <<"g", "a", "m", "e">>
W_id == <<"i", "d">>
W_player == <<"p", "l", "a", "y", "e", "r">>
W_user == <<"u", "s", "e", "r">>
W_named == <<"n", "a", "m", "e", "d">>
W_recent == <<"r", "e", "c", "e", "n", "t">>
W_matche == <<"m", "a", "t", "c", "h", "e">>
W_heroe == <<"h", "e", "r", "o", "e">>
W_for == <<"f", "o", "r">>
W_s == <<"s">>

\* matchIdPattern without the game alternative.
matchIdPattern_matchOnly(s, i) ==
  LET kw == Lit(W_match, s, {i})
      sp == Ws1(s, kw)
      id == sp \cup Ws1(s, Lit(W_id, s, sp))
  IN DigitsCapture(s, id)

\* /(?:match|game)\s+(?:id\s+)?(\d+)/i
matchIdPattern(s, i) ==
  LET kw == Lit(W_match, s, {i}) \cup Lit(W_game, s, {i})
      sp == Ws1(s, kw)
      id == sp \cup Ws1(s, Lit(W_id, s, sp))
  IN DigitsCapture(s, id)

\* playerNamePattern with the white space after the opening quote left
\* out of the capture.
playerNamePattern_trimmed(s, i) ==
  LET kw == Lit(W_player, s, {i}) \cup Lit(W_user, s, {i})
      sp == Ws1(s, kw)
      nm == sp \cup Ws1(s, Lit(W_named, s, sp))
      open == { p \in nm : p <= Len(s) /\ IsQuote(s[p]) }
  IN UNION { { <<IF IsWs(s[p + 1]) /\ q > p + 2 THEN p + 2 ELSE p + 1, q>> :
                 q \in { r \in 1..Len(s) :
                          /\ r > p + 1
                          /\ IsQuote(s[r])
                          /\ \A k \in (p + 1)..(r - 1) : ~IsQuote(s[k]) } }
             : p \in open }

\* /(?:player|user)\s+(?:named\s+)?["']([^"']+)["']/i
playerNamePattern(s, i) ==
  LET kw == Lit(W_player, s, {i}) \cup Lit(W_user, s, {i})
      sp == Ws1(s, kw)
      nm == sp \cup Ws1(s, Lit(W_named, s, sp))
      open == { p \in nm : p <= Len(s) /\ IsQuote(s[p]) }
  IN UNION { { <<p + 1, q>> : q \in { r \in 1..Len(s) :
                                       /\ r > p + 1
                                       /\ IsQuote(s[r])
                                       /\ \A k \in (p + 1)..(r - 1) : ~IsQuote(s[k]) } }
             : p \in open }

\* playerIdPattern without the user alternative.
playerIdPattern_playerOnly(s, i) ==
  LET kw == Lit(W_player, s, {i})
      sp == Ws1(s, kw)
      id == sp \cup Ws1(s, Lit(W_id, s, sp))
  IN DigitsCapture(s, id)

\* /(?:player|user)\s+(?:id\s+)?(\d+)/i
playerIdPattern(s, i) ==
  LET kw == Lit(W_player, s, {i}) \cup Lit(W_user, s, {i})
      sp == Ws1(s, kw)
      id == sp \cup Ws1(s, Lit(W_id, s, sp))
  IN DigitsCapture(s, id)

\* The tail (?:for\s+)?(?:player\s+)?(?:id\s+)?(\d+) shared by two patterns.
ForPlayerIdDigits(s, P) ==
  LET f == P \cup Ws1(s, Lit(W_for, s, P))
      pl == f \cup Ws1(s, Lit(W_player, s, f))
      id == pl \cup Ws1(s, Lit(W_id, s, pl))
  IN DigitsCapture(s, id)

\* /recent\s+matches?\s+(?:for\s+)?(?:player\s+)?(?:id\s+)?(\d+)/i
recentMatchesPattern(s, i) ==
  LET rc == Ws1(s, Lit(W_recent, s, {i}))
      me == Lit(W_matche, s, rc)
      ms == me \cup Lit(W_s, s, me)
  IN ForPlayerIdDigits(s, Ws1(s, ms))

\* /(?:heroes?\s+(?:for\s+)?(?:player\s+)?(?:id\s+)?(\d+)|player\s+(\d+)\s+heroes?)/i
\* The code reads match[1] || match[2]: the capture of whichever alternative
\* matched.
playerHeroesPattern(s, i) ==
  LET he == Lit(W_heroe, s, {i})
      hs == he \cup Lit(W_s, s, he)
      alt1 == ForPlayerIdDigits(s, Ws1(s, hs))
      pl == Ws1(s, Lit(W_player, s, {i}))
      alt2 == { c \in DigitsCapture(s, pl) : Lit(W_heroe, s, Ws1(s, {c[2]})) # {} }
  IN alt1 \cup alt2

\* The captures of the matches of a pattern that start at position i.
CapturesAt(pat, s, i) ==
  CASE pat = "matchIdPattern" -> matchIdPattern(s, i)
    [] pat = "playerNamePattern" -> playerNamePattern(s, i)
    [] pat = "playerIdPattern" -> playerIdPattern(s, i)
    [] pat = "recentMatchesPattern" -> recentMatchesPattern(s, i)
    [] pat = "playerHeroesPattern" -> playerHeroesPattern(s, i)

\* RegExp.prototype.exec without the g flag: the match that starts leftmost.
\* The result is the captured text, or NoMatch (null).
exec(pat, s) ==
  LET starts == { i \in 1..Len(s) : CapturesAt(pat, s, i) # {} }
  IN IF starts = {} THEN NoMatch
     ELSE LET i == CHOOSE j \in starts : \A k \in starts : j <= k
              caps == CapturesAt(pat, s, i)
              \* optional groups are greedy: the capture that took them
              c == CHOOSE d \in caps : \A e \in caps : d[1] >= e[1]
          IN SubSeq(s, c[1], c[2] - 1)

\* parseInt of a captured run of decimal digits: its base-10 value.
RECURSIVE parseInt(_)
parseInt(d) ==
  IF Len(d) = 0 THEN 0
  ELSE 10 * parseInt(SubSeq(d, 1, Len(d) - 1))
       + ((CHOOSE k \in 1..10 : DigitChars[k] = d[Len(d)]) - 1)

\* The copy of parseNaturalQuery written out in the unit test: the same five
\* patterns, tried in the order match id, player name, recent matches, heroes,
\* player id, then the fallback.
referenceParseNaturalQuery(q) ==
  LET m1 == exec("matchIdPattern", q)
      m2 == exec("playerNamePattern", q)
      m3 == exec("recentMatchesPattern", q)
      m4 == exec("playerHeroesPattern", q)
      m5 == exec("playerIdPattern", q)
  IN IF m1 # NoMatch
     THEN [type |-> "get_match", params |-> [match_id |-> parseInt(m1)]]
     ELSE IF m2 # NoMatch
     THEN [type |-> "search_players", params |-> [query |-> m2]]
     ELSE IF m3 # NoMatch
     THEN [type |-> "get_player_recent_matches", params |-> [account_id |-> parseInt(m3)]]
     ELSE IF m4 # NoMatch
     THEN [type |-> "get_player_heroes", params |-> [account_id |-> parseInt(m4)]]
     ELSE IF m5 # NoMatch
     THEN [type |-> "get_player", params |-> [account_id |-> parseInt(m5)]]
     ELSE [type |-> "search", params |-> [query |-> q]]

\* parseNaturalQuery with the fallback carrying lowerQuery instead of query.
parseNaturalQuery_lowerFallback(q) ==
  LET m1 == exec("matchIdPattern", q)
      m2 == exec("playerNamePattern", q)
      m3 == exec("playerIdPattern", q)
      m4 == exec("recentMatchesPattern", q)
      m5 == exec("playerHeroesPattern", q)
  IN IF m1 # NoMatch
     THEN [type |-> "get_match", params |-> [match_id |-> parseInt(m1)]]
     ELSE IF m2 # NoMatch
     THEN [type |-> "search_players", params |-> [query |-> m2]]
     ELSE IF m3 # NoMatch
     THEN [type |-> "get_player", params |-> [account_id |-> parseInt(m3)]]
     ELSE IF m4 # NoMatch
     THEN [type |-> "get_player_recent_matches", params |-> [account_id |-> parseInt(m4)]]
     ELSE IF m5 # NoMatch
     THEN [type |-> "get_player_heroes", params |-> [account_id |-> parseInt(m5)]]
     ELSE [type |-> "search", params |-> [query |-> toLowerCase(q)]]

\* parseNaturalQuery with the player-id test moved before the match-id test.
parseNaturalQuery_playerFirst(q) ==
  LET m1 == exec("matchIdPattern", q)
      m2 == exec("playerNamePattern", q)
      m3 == exec("playerIdPattern", q)
      m4 == exec("recentMatchesPattern", q)
      m5 == exec("playerHeroesPattern", q)
  IN IF m3 # NoMatch
     THEN [type |-> "get_player", params |-> [account_id |-> parseInt(m3)]]
     ELSE IF m1 # NoMatch
     THEN [type |-> "get_match", params |-> [match_id |-> parseInt(m1)]]
     ELSE IF m2 # NoMatch
     THEN [type |-> "search_players", params |-> [query |-> m2]]
     ELSE IF m4 # NoMatch
     THEN [type |-> "get_player_recent_matches", params |-> [account_id |-> parseInt(m4)]]
     ELSE IF m5 # NoMatch
     THEN [type |-> "get_player_heroes", params |-> [account_id |-> parseInt(m5)]]
     ELSE [type |-> "search", params |-> [query |-> q]]

\* parseNaturalQuery: the five patterns in the order of the code, then the
\* fallback carrying the query itself.
parseNaturalQuery(q) ==
  LET m1 == exec("matchIdPattern", q)
      m2 == exec("playerNamePattern", q)
      m3 == exec("playerIdPattern", q)
      m4 == exec("recentMatchesPattern", q)
      m5 == exec("playerHeroesPattern", q)
  IN IF m1 # NoMatch
     THEN [type |-> "get_match", params |-> [match_id |-> parseInt(m1)]]
     ELSE IF m2 # NoMatch
     THEN [type |-> "search_players", params |-> [query |-> m2]]
     ELSE IF m3 # NoMatch
     THEN [type |-> "get_player", params |-> [account_id |-> parseInt(m3)]]
     ELSE IF m4 # NoMatch
     THEN [type |-> "get_player_recent_matches", params |-> [account_id |-> parseInt(m4)]]
     ELSE IF m5 # NoMatch
     THEN [type |-> "get_player_heroes", params |-> [account_id |-> parseInt(m5)]]
     ELSE [type |-> "search", params |-> [query |-> q]]

\* ------------------------------------------------------------ query texts

\* The decimal numeral of n, without leading zeros.
RECURSIVE Decimal(_)
Decimal(n) ==
  IF n < 10 THEN <<DigitChars[n + 1]>>
  ELSE Decimal(n \div 10) \o <<DigitChars[(n % 10) + 1]>>

Numerals == { Decimal(n) : n \in 0..MaxN }

\* Numerals with leading zeros.
ZeroPadded == { <<"0", "7">>, <<"0", "0", "7">> }

NumStrs == Numerals \cup ZeroPadded

T_match(d) == <<"m", "a", "t", "c", "h", " ">> \o d
T_game(d) == <<"g", "a", "m", "e", " ">> \o d
T_matchId(d) == <<"m", "a", "t", "c", "h", " ", "i", "d", " ">> \o d
T_gameId(d) == <<"g", "a", "m", "e", " ", "i", "d", " ">> \o d
T_matchUpper(d) == <<"M", "A", "T", "C", "H", " ", " ">> \o d
T_gameTab(d) == <<"G", "a", "m", "e">> \o <<"\t">> \o <<"I", "D", " ">> \o d
T_matchGlued(d) == <<"m", "a", "t", "c", "h">> \o d
T_player(d) == <<"p", "l", "a", "y", "e", "r", " ">> \o d
T_user(d) == <<"u", "s", "e", "r", " ">> \o d
T_playerId(d) == <<"p", "l", "a", "y", "e", "r", " ", "i", "d", " ">> \o d
T_userUpper(d) == <<"U", "s", "e", "r", " ", " ", "I", "d", " ">> \o d
T_recentFor(d) == <<"r", "e", "c", "e", "n", "t", " ", "m", "a", "t", "c", "h", "e", "s", " ", "f", "o", "r", " ", "p", "l", "a", "y", "e", "r", " ">> \o d
T_recent(d) == <<"r", "e", "c", "e", "n", "t", " ", "m", "a", "t", "c", "h", "e", "s", " ">> \o d
T_recentUpper(d) == <<"R", "e", "c", "e", "n", "t", " ", "M", "a", "t", "c", "h", "e", " ", "F", "O", "R", " ", "i", "d", " ">> \o d
T_recentMatch(d) == <<"r", "e", "c", "e", "n", "t", " ", "m", "a", "t", "c", "h", " ">> \o d
T_heroesFor(d) == <<"h", "e", "r", "o", "e", "s", " ", "f", "o", "r", " ", "p", "l", "a", "y", "e", "r", " ">> \o d
T_playerHeroes(d) == <<"p", "l", "a", "y", "e", "r", " ">> \o d \o <<" ", "h", "e", "r", "o", "e", "s">>
T_heroes(d) == <<"h", "e", "r", "o", "e", "s", " ">> \o d
T_heroesForId(d) == <<"H", "e", "r", "o", "e", " ", "f", "o", "r", " ", "I", "D", " ">> \o d
T_heroFor(d) == <<"h", "e", "r", "o", " ", "f", "o", "r", " ">> \o d
T_bare(d) == d

NumberPhrases ==
  UNION { { T_match(d), T_game(d), T_matchId(d), T_gameId(d), T_matchUpper(d), T_gameTab(d),
            T_matchGlued(d), T_player(d), T_user(d), T_playerId(d), T_userUpper(d),
            T_recentFor(d), T_recent(d), T_recentUpper(d), T_recentMatch(d),
            T_heroesFor(d), T_playerHeroes(d), T_heroes(d), T_heroesForId(d),
            T_heroFor(d), T_bare(d) } : d \in NumStrs }

\* Player names: none contains a quote character.
Names == { <<"F", "o", "o">>, <<" ", "F", "o", "o", " ">>, <<"T", "e", "s", "t", "P", "l", "a", "y", "e", "r">>, <<"M", "i", "r", "a", "c", "l", "e", "-">>, <<"a">>, <<"m", "a", "t", "c", "h", " ", "7">>,
           <<"t", "h", "e", " ", "g", "a", "m", "e", " ", "i", "d", " ", "1", "2", " ", "m", "v", "p">>, <<>> }

T_named(nm) == <<"p", "l", "a", "y", "e", "r", " ", "n", "a", "m", "e", "d", " ", "\"">> \o nm \o <<"\"">>
T_quoted(nm) == <<"P", "l", "a", "y", "e", "r", " ", "\"">> \o nm \o <<"\"">>
T_userQuoted(nm) == <<"u", "s", "e", "r", " ", " ", "N", "A", "M", "E", "D", " ", "'">> \o nm \o <<"'">>

NamePhrases == UNION { { T_named(nm), T_quoted(nm), T_userQuoted(nm) } : nm \in Names }

PlainPhrases == { <<"w", "h", "a", "t", " ", "i", "s", " ", "t", "h", "e", " ", "m", "e", "a", "n", "i", "n", "g", " ", "o", "f", " ", "l", "i", "f", "e">>, <<"t", "h", "i", "s", " ", "i", "s", " ", "n", "o", "t", " ", "a", " ", "v", "a", "l", "i", "d", " ", "q", "u", "e", "r", "y">>,
                  <<"H", "e", "l", "l", "o", " ", "W", "o", "r", "l", "d">>, <<"p", "l", "a", "y", "e", "r">>, <<"m", "a", "t", "c", "h", " ", "i", "d">>, <<>> }

Phrases == NumberPhrases \cup NamePhrases \cup PlainPhrases

\* Leading words that hold no keyword of the patterns.
LeadingWords == { <<>>, <<"s", "h", "o", "w", " ", "m", "e", " ">>, <<"f", "i", "n", "d", " ">>,
                  <<"S", "H", "O", "W", " ", "M", "E", " ">> }

P_re == <<"r", "e">>
P_userBob == <<"u", "s", "e", "r", " ", "\"", "b", "o", "b", "\"", " ">>
P_match5 == <<"m", "a", "t", "c", "h", " ", "5", " ">>

Prefixes == LeadingWords \cup { P_re, P_userBob, P_match5 }

S_please == <<" ", "p", "l", "e", "a", "s", "e">>
S_player9 == <<" ", "p", "l", "a", "y", "e", "r", " ", "9">>
S_gameId8 == <<" ", "g", "a", "m", "e", " ", "i", "d", " ", "8">>
S_heroes == <<" ", "h", "e", "r", "o", "e", "s">>

Suffixes == { <<>>, S_please, S_player9, S_gameId8, S_heroes }

Inputs == { pre \o ph \o suf : pre \in Prefixes, ph \in Phrases, suf \in Suffixes }

\* No dispatch result (yet).
NoResult == [type |-> "none"]

\* ------------------------------------------------------- tool arguments

\* At most MaxCalls tool calls are being handled at any time.
MaxCalls == 1

\* A JSON value of a tool argument: undefined, a number or a string.
Undef == [t |-> "undefined", n |-> 0, s |-> <<>>]
Num(k) == [t |-> "number", n |-> k, s |-> <<>>]
Str(x) == [t |-> "string", n |-> 0, s |-> x]

ArgFields == { "match_id", "account_id", "limit", "hero_id", "query" }

\* request.params.arguments: an object (a missing field reads undefined), or
\* undefined itself.
ArgsUndefined == [obj |-> FALSE, fields |-> [f \in ArgFields |-> Undef]]
ArgsEmpty == [obj |-> TRUE, fields |-> [f \in ArgFields |-> Undef]]
With(a, f, v) == [a EXCEPT !.fields[f] = v]

\* A field of a z.object schema: z.number() or z.string(), .optional() or not.
ZNumber == [type |-> "number", optional |-> FALSE]
ZString == [type |-> "string", optional |-> FALSE]
ZOptional(z) == [z EXCEPT !.optional = TRUE]

GetMatchSchema == [match_id |-> ZNumber]
GetPlayerSchema == [account_id |-> ZNumber]
GetPlayerMatchesSchema ==
  [account_id |-> ZNumber, limit |-> ZOptional(ZNumber), hero_id |-> ZOptional(ZNumber)]
SearchPlayersSchema == [query |-> ZString]
NaturalQuerySchema == [query |-> ZString]

\* A variant that takes a missing field for an optional one.
ZodAccepts_allOptional(z, v) == v.t = z.type \/ v.t = "undefined"

\* Whether a schema field accepts a value.
ZodAccepts(z, v) == v.t = z.type \/ (z.optional /\ v.t = "undefined")

\* The issues of a ZodError: the object itself when the arguments are not an
\* object, else one issue for each field the schema does not accept.
ZodIssues(schema, a) ==
  IF ~a.obj
  THEN { [path |-> "", expected |-> "object", received |-> "undefined"] }
  ELSE { [path |-> f, expected |-> schema[f].type, received |-> a.fields[f].t] :
           f \in { g \in DOMAIN schema : ~ZodAccepts(schema[g], a.fields[g]) } }

\* Schema.parse(args): ok with the fields of the schema (unknown keys are
\* stripped), or a ZodError carrying the issues.
ZodParse(schema, a) ==
  [ok |-> ZodIssues(schema, a) = {},
   issues |-> ZodIssues(schema, a),
   data |-> [f \in ArgFields |-> IF f \in DOMAIN schema THEN a.fields[f] ELSE Undef]]

\* ------------------------------------------------------------ the client

baseURL == <<"h", "t", "t", "p", "s", ":", "/", "/", "a", "p", "i", ".", "o", "p", "e", "n", "d", "o", "t", "a", ".", "c", "o", "m", "/", "a", "p", "i">>
timeout == 30000
userAgent == <<"O", "p", "e", "n", "D", "o", "t", "a", "-", "M", "C", "P", "-", "S", "e", "r", "v", "e", "r", "/", "1", ".", "0", ".", "0">>

ApiKeyUnset == [set |-> FALSE, v |-> <<>>]
ApiKeyTest == [set |-> TRUE, v |-> <<"t", "e", "s", "t", "-", "a", "p", "i", "-", "k", "e", "y">>]
ApiKeys == { ApiKeyUnset, ApiKeyTest }

ParamFields == { "limit", "hero_id", "q", "api_key" }
NoParams == [f \in ParamFields |-> Undef]

NoRequest == [method |-> "", url |-> <<>>, params |-> NoParams, timeout |-> 0, userAgent |-> <<>>]

\* A variant that sends the key alone and drops the parameters of the caller.
makeRequest_keyOnly(endpoint, params) ==
  [method |-> "GET",
   url |-> baseURL \o endpoint,
   params |-> IF apiKey.set /\ apiKey.v # <<>>
              THEN [NoParams EXCEPT !["api_key"] = Str(apiKey.v)]
              ELSE params,
   timeout |-> timeout,
   userAgent |-> userAgent]

\* makeRequest up to the await of axios.get: the request handed to axios.
\* if (this.apiKey) params.api_key = this.apiKey
makeRequest(endpoint, params) ==
  [method |-> "GET",
   url |-> baseURL \o endpoint,
   params |-> IF apiKey.set /\ apiKey.v # <<>>
              THEN [params EXCEPT !["api_key"] = Str(apiKey.v)]
              ELSE params,
   timeout |-> timeout,
   userAgent |-> userAgent]

getMatch(matchId) == makeRequest(<<"/", "m", "a", "t", "c", "h", "e", "s", "/">> \o Decimal(matchId), NoParams)
getPlayer(accountId) == makeRequest(<<"/", "p", "l", "a", "y", "e", "r", "s", "/">> \o Decimal(accountId), NoParams)
\* A variant that requests the matches without the hero filter.
getPlayerMatches_limitOnly(accountId, options) ==
  makeRequest(<<"/", "p", "l", "a", "y", "e", "r", "s", "/">> \o Decimal(accountId) \o <<"/", "m", "a", "t", "c", "h", "e", "s">>,
              [options EXCEPT !["hero_id"] = Undef])

getPlayerMatches(accountId, options) ==
  makeRequest(<<"/", "p", "l", "a", "y", "e", "r", "s", "/">> \o Decimal(accountId) \o <<"/", "m", "a", "t", "c", "h", "e", "s">>, options)
getPlayerRecentMatches(accountId) ==
  makeRequest(<<"/", "p", "l", "a", "y", "e", "r", "s", "/">> \o Decimal(accountId) \o <<"/", "r", "e", "c", "e", "n", "t", "M", "a", "t", "c", "h", "e", "s">>, NoParams)
getPlayerHeroes(accountId) ==
  makeRequest(<<"/", "p", "l", "a", "y", "e", "r", "s", "/">> \o Decimal(accountId) \o <<"/", "h", "e", "r", "o", "e", "s">>, NoParams)
getHeroes == makeRequest(<<"/", "h", "e", "r", "o", "e", "s">>, NoParams)
searchPlayers(q) == makeRequest(<<"/", "s", "e", "a", "r", "c", "h">>, [NoParams EXCEPT !["q"] = Str(q)])
getProMatches == makeRequest(<<"/", "p", "r", "o", "M", "a", "t", "c", "h", "e", "s">>, NoParams)
getPublicMatches == makeRequest(<<"/", "p", "u", "b", "l", "i", "c", "M", "a", "t", "c", "h", "e", "s">>, NoParams)

\* Bodies the upstream sends.
NoPayload == [kind |-> "none", id |-> 0]
HeroList == [kind |-> "array", id |-> 1]
InvalidJson == [kind |-> "string", id |-> 2]
NotFoundBody == [kind |-> "object", id |-> 3]
ServerErrorBody == [kind |-> "object", id |-> 4]
GatewayTimeoutBody == [kind |-> "string", id |-> 5]

\* What axios.get resolves with: a 2xx response.
Responses == { [status |-> 200, data |-> HeroList], [status |-> 200, data |-> InvalidJson] }

\* What axios.get rejects with: error.code, error.message, error.response.
AxiosError(code, message, hasResponse, status, data) ==
  [code |-> code, message |-> message, hasResponse |-> hasResponse, status |-> status, data |-> data]

NoAxiosError == AxiosError("", <<>>, FALSE, 0, NoPayload)

TimeoutMessage == <<"t", "i", "m", "e", "o", "u", "t", " ", "o", "f", " ">> \o Decimal(timeout) \o <<"m", "s", " ", "e", "x", "c", "e", "e", "d", "e", "d">>

\* the request timer of axios ran out
E_timeout == AxiosError("ECONNABORTED", TimeoutMessage, FALSE, 0, NoPayload)
\* the same with transitional.clarifyTimeoutError
E_timeoutClarified == AxiosError("ETIMEDOUT", TimeoutMessage, FALSE, 0, NoPayload)
\* the connection attempt timed out in the operating system
E_connectTimedOut == AxiosError("ETIMEDOUT", <<"c", "o", "n", "n", "e", "c", "t", " ", "E", "T", "I", "M", "E", "D", "O", "U", "T", " ", "1", "0", "4", ".", "1", "8", ".", "0", ".", "1", ":", "4", "4", "3">>, FALSE, 0, NoPayload)
E_refused == AxiosError("ECONNREFUSED", <<"c", "o", "n", "n", "e", "c", "t", " ", "E", "C", "O", "N", "N", "R", "E", "F", "U", "S", "E", "D", " ", "1", "0", "4", ".", "1", "8", ".", "0", ".", "1", ":", "4", "4", "3">>, FALSE, 0, NoPayload)
E_dns == AxiosError("ENOTFOUND", <<"g", "e", "t", "a", "d", "d", "r", "i", "n", "f", "o", " ", "E", "N", "O", "T", "F", "O", "U", "N", "D", " ", "a", "p", "i", ".", "o", "p", "e", "n", "d", "o", "t", "a", ".", "c", "o", "m">>, FALSE, 0, NoPayload)
E_notFound ==
  AxiosError("ERR_BAD_REQUEST", <<"R", "e", "q", "u", "e", "s", "t", " ", "f", "a", "i", "l", "e", "d", " ", "w", "i", "t", "h", " ", "s", "t", "a", "t", "u", "s", " ", "c", "o", "d", "e", " ", "4", "0", "4">>, TRUE, 404, NotFoundBody)
E_serverError ==
  AxiosError("ERR_BAD_RESPONSE", <<"R", "e", "q", "u", "e", "s", "t", " ", "f", "a", "i", "l", "e", "d", " ", "w", "i", "t", "h", " ", "s", "t", "a", "t", "u", "s", " ", "c", "o", "d", "e", " ", "5", "0", "0">>, TRUE, 500, ServerErrorBody)

\* a reverse proxy answered for an upstream that did not
E_gatewayTimeout ==
  AxiosError("ERR_BAD_RESPONSE", <<"R", "e", "q", "u", "e", "s", "t", " ", "f", "a", "i", "l", "e", "d", " ", "w", "i", "t", "h", " ", "s", "t", "a", "t", "u", "s", " ", "c", "o", "d", "e", " ", "5", "0", "4">>, TRUE, 504, GatewayTimeoutBody)

AxiosErrors == { E_timeout, E_timeoutClarified, E_connectTimedOut, E_refused, E_dns,
                 E_notFound, E_serverError, E_gatewayTimeout }

\* String.prototype.includes: w occurs in s, letter case respected.
includes(s, w) ==
  \E i \in 1..Len(s) :
    /\ i + Len(w) - 1 <= Len(s)
    /\ \A k \in 1..Len(w) : s[i + k - 1] = w[k]

\* ------------------------------------------------------------- errors

NoDetails ==
  [has |-> FALSE, zodError |-> {}, code |-> "", response |-> NoPayload,
   originalError |-> "", axios |-> NoAxiosError]

\* new MCPError(message, code, statusCode, details) and its subclasses.
MCPError(name, message, code, statusCode, details) ==
  [name |-> name, mcp |-> TRUE, message |-> message, code |-> code,
   statusCode |-> statusCode, details |-> details]

ValidationError(message, details) ==
  MCPError("ValidationError", message, "VALIDATION_ERROR", 400, details)
APIError(message, statusCode, details) ==
  MCPError("APIError", message, "API_ERROR", statusCode, details)
TimeoutError(message, details) ==
  MCPError("TimeoutError", message, "TIMEOUT_ERROR", 408, details)

\* Thrown values that are no MCPError: a ZodError, a plain Error.
ZodError(issues) ==
  [name |-> "ZodError", mcp |-> FALSE, message |-> <<>>, code |-> "", statusCode |-> 0,
   details |-> [NoDetails EXCEPT !.zodError = issues]]
PlainError(message) ==
  [name |-> "Error", mcp |-> FALSE, message |-> message, code |-> "", statusCode |-> 0,
   details |-> NoDetails]

NoError == [name |-> "", mcp |-> FALSE, message |-> <<>>, code |-> "", statusCode |-> 0,
            details |-> NoDetails]

\* A variant that checks the shape of the body and drops one that is no array.
ReturnData_validated(resp) == IF resp.data.kind = "array" THEN resp.data ELSE NoPayload

\* return response.data: what makeRequest gives its caller on a 2xx reply.
ReturnData(resp) == resp.data

\* The error makeRequest writes to the log for a rejected request.
LoggedApiError(e) ==
  APIError(<<"O", "p", "e", "n", "D", "o", "t", "a", " ", "A", "P", "I", " ", "r", "e", "q", "u", "e", "s", "t", " ", "f", "a", "i", "l", "e", "d", ":", " ">> \o e.message,
           IF e.hasResponse /\ e.status # 0 THEN e.status ELSE 500,
           [NoDetails EXCEPT !.has = TRUE, !.code = e.code, !.response = e.data])

\* A variant that gives every APIError the status 500.
ThrownApiError_status500(e) ==
  IF e.code = "ECONNABORTED" \/ includes(e.message, <<"t", "i", "m", "e", "o", "u", "t">>)
  THEN TimeoutError(<<"O", "p", "e", "n", "D", "o", "t", "a", " ", "A", "P", "I", " ", "r", "e", "q", "u", "e", "s", "t", " ", "t", "i", "m", "e", "d", " ", "o", "u", "t", " ", "a", "f", "t", "e", "r", " ">> \o Decimal(timeout) \o <<"m", "s">>,
                    [NoDetails EXCEPT !.has = TRUE, !.originalError = "AxiosError", !.axios = e])
  ELSE APIError(<<"O", "p", "e", "n", "D", "o", "t", "a", " ", "A", "P", "I", " ", "r", "e", "q", "u", "e", "s", "t", " ", "f", "a", "i", "l", "e", "d", ":", " ">> \o e.message, 500,
                [NoDetails EXCEPT !.has = TRUE, !.code = e.code, !.response = e.data,
                                  !.originalError = "AxiosError", !.axios = e])

\* The error makeRequest throws for a rejected request.
ThrownApiError(e) ==
  IF e.code = "ECONNABORTED" \/ includes(e.message, <<"t", "i", "m", "e", "o", "u", "t">>)
  THEN TimeoutError(<<"O", "p", "e", "n", "D", "o", "t", "a", " ", "A", "P", "I", " ", "r", "e", "q", "u", "e", "s", "t", " ", "t", "i", "m", "e", "d", " ", "o", "u", "t", " ", "a", "f", "t", "e", "r", " ">> \o Decimal(timeout) \o <<"m", "s">>,
                    [NoDetails EXCEPT !.has = TRUE, !.originalError = "AxiosError", !.axios = e])
  ELSE APIError(<<"O", "p", "e", "n", "D", "o", "t", "a", " ", "A", "P", "I", " ", "r", "e", "q", "u", "e", "s", "t", " ", "f", "a", "i", "l", "e", "d", ":", " ">> \o e.message,
                IF e.hasResponse /\ e.status # 0 THEN e.status ELSE 500,
                [NoDetails EXCEPT !.has = TRUE, !.code = e.code, !.response = e.data,
                                  !.originalError = "AxiosError", !.axios = e])

\* ------------------------------------------------------- the tool list

\* The default the description of limit states: 'Number of matches to return
\* (default: 20)'.
DocumentedDefaultLimit == 20

\* The names of ListTools, with the required fields and the field types of
\* their inputSchema.
ToolNames == { "get_match", "get_player", "get_player_matches", "get_player_recent_matches",
               "get_player_heroes", "search_players", "get_heroes", "get_pro_matches",
               "natural_query" }

DeclaredRequired ==
  [get_match |-> { "match_id" }, get_player |-> { "account_id" },
   get_player_matches |-> { "account_id" }, get_player_recent_matches |-> { "account_id" },
   get_player_heroes |-> { "account_id" }, search_players |-> { "query" },
   get_heroes |-> {}, get_pro_matches |-> {}, natural_query |-> { "query" }]

DeclaredType ==
  [match_id |-> "number", account_id |-> "number", limit |-> "number",
   hero_id |-> "number", query |-> "string"]

DeclaredProperties ==
  [get_match |-> { "match_id" }, get_player |-> { "account_id" },
   get_player_matches |-> { "account_id", "limit", "hero_id" },
   get_player_recent_matches |-> { "account_id" },
   get_player_heroes |-> { "account_id" }, search_players |-> { "query" },
   get_heroes |-> {}, get_pro_matches |-> {}, natural_query |-> { "query" }]

\* A response that is no tool list.
NoListing == {}

\* Names a caller may send that are no tool.
UnknownTools == { "get_public_matches", "Get_Match" }

NameText ==
  [get_match |-> <<"g", "e", "t", "_", "m", "a", "t", "c", "h">>, get_player |-> <<"g", "e", "t", "_", "p", "l", "a", "y", "e", "r">>,
   get_player_matches |-> <<"g", "e", "t", "_", "p", "l", "a", "y", "e", "r", "_", "m", "a", "t", "c", "h", "e", "s">>,
   get_player_recent_matches |-> <<"g", "e", "t", "_", "p", "l", "a", "y", "e", "r", "_", "r", "e", "c", "e", "n", "t", "_", "m", "a", "t", "c", "h", "e", "s">>,
   get_player_heroes |-> <<"g", "e", "t", "_", "p", "l", "a", "y", "e", "r", "_", "h", "e", "r", "o", "e", "s">>, search_players |-> <<"s", "e", "a", "r", "c", "h", "_", "p", "l", "a", "y", "e", "r", "s">>,
   get_heroes |-> <<"g", "e", "t", "_", "h", "e", "r", "o", "e", "s">>, get_pro_matches |-> <<"g", "e", "t", "_", "p", "r", "o", "_", "m", "a", "t", "c", "h", "e", "s">>,
   natural_query |-> <<"n", "a", "t", "u", "r", "a", "l", "_", "q", "u", "e", "r", "y">>, get_public_matches |-> <<"g", "e", "t", "_", "p", "u", "b", "l", "i", "c", "_", "m", "a", "t", "c", "h", "e", "s">>,
   Get_Match |-> <<"G", "e", "t", "_", "M", "a", "t", "c", "h">>]

\* ------------------------------------------------------------ responses

JSONstringify(v) == [indent |-> 2, value |-> v]
NoJson == [indent |-> 0, value |-> NoPayload]
NoDetailsJson == [indent |-> 0, value |-> NoDetails]

\* The text of a response: its literal part, then the serialised upstream
\* result or the serialised error details when it has one.
Text(prefix, payload, details) == [prefix |-> prefix, payload |-> payload, details |-> details]

NoResponse == [content |-> "", text |-> Text(<<>>, NoJson, NoDetailsJson), isError |-> FALSE]

\* { content: [{ type: 'text', text }] }: isError FALSE stands for no isError key.
SuccessResponse(text) == [content |-> "text", text |-> text, isError |-> FALSE]
\* A variant that leaves out the isError key.
ErrorResponse_unflagged(text) == [content |-> "text", text |-> text, isError |-> FALSE]

\* { content: [{ type: 'text', text }], isError: true }
ErrorResponse(text) == [content |-> "text", text |-> text, isError |-> TRUE]

\* --------------------------------------------------------------- the log

\* The object handed to the logger at a level: its keys and the values of those
\* the model follows (statusCode 0 is undefined; a duration is Date.now() less
\* the start time, followed as a key only).
LogEntry(level, type, keys, toolName, method, url, statusCode, success, error) ==
  [level |-> level, type |-> type, keys |-> keys, toolName |-> toolName, method |-> method,
   url |-> url, statusCode |-> statusCode, success |-> success, error |-> error]

\* logger.debug({ type: 'tool_request_start', toolName, arguments })
ToolStartEntry(name) ==
  LogEntry("debug", "tool_request_start", { "type", "toolName", "arguments" },
           name, "", <<>>, 0, FALSE, NoError)
\* logger.debug({ type: 'api_request_start', method: 'GET', url, params })
ApiStartEntry(req) ==
  LogEntry("debug", "api_request_start", { "type", "method", "url", "params" },
           "", req.method, req.url, 0, FALSE, NoError)
\* logger.logApiCall: info without an error, error with one.
logApiCall(method, url, statusCode, error) ==
  IF error # NoError
  THEN LogEntry("error", "api_call",
                { "type", "method", "url", "statusCode", "duration", "error" },
                "", method, url, statusCode, FALSE, error)
  ELSE LogEntry("info", "api_call", { "type", "method", "url", "statusCode", "duration" },
                "", method, url, statusCode, TRUE, NoError)
\* logger.logToolExecution: info on success, error (with the error) on failure.
logToolExecution(name, success, error) ==
  IF success
  THEN LogEntry("info", "tool_execution",
                { "type", "toolName", "arguments", "duration", "success" },
                name, "", <<>>, 0, TRUE, NoError)
  ELSE LogEntry("error", "tool_execution",
                { "type", "toolName", "arguments", "duration", "success", "error" },
                name, "", <<>>, 0, FALSE, error)

\* ---------------------------------------------------------- the handler

NoSettle == [kind |-> "pending", status |-> 0, data |-> NoPayload, error |-> NoAxiosError]

IdleCall ==
  [pc |-> "idle", name |-> "", args |-> ArgsUndefined, op |-> "", natural |-> NoResult,
   label |-> <<>>, request |-> NoRequest, nrequests |-> 0, settled |-> NoSettle,
   thrown |-> NoError, response |-> NoResponse, listing |-> NoListing, outcome |-> "pending",
   logs |-> <<>>]

\* The try block up to its first await, or to its end when it has none:
\* await a client call, return a text, or throw.
Await(op, req, natural, label) ==
  [kind |-> "await", op |-> op, request |-> req, natural |-> natural, label |-> label,
   error |-> NoError, text |-> Text(<<>>, NoJson, NoDetailsJson)]
Return(natural, text) ==
  [kind |-> "return", op |-> "", request |-> NoRequest, natural |-> natural, label |-> <<>>,
   error |-> NoError, text |-> text]
Throw(error) ==
  [kind |-> "throw", op |-> "", request |-> NoRequest, natural |-> NoResult, label |-> <<>>,
   error |-> error, text |-> Text(<<>>, NoJson, NoDetailsJson)]

\* A variant that sends a text no pattern matches to the player search.
NaturalSwitch_searchFallback(p, q) ==
     CASE p.type = "get_match" ->
            Await("getMatch", getMatch(p.params.match_id), p,
                  <<"M", "a", "t", "c", "h", " ">> \o Decimal(p.params.match_id) \o <<" ", "i", "n", "f", "o", "r", "m", "a", "t", "i", "o", "n", ":">> \o <<"\n", "\n">>)
       [] p.type = "get_player" ->
            Await("getPlayer", getPlayer(p.params.account_id), p,
                  <<"P", "l", "a", "y", "e", "r", " ">> \o Decimal(p.params.account_id) \o <<" ", "i", "n", "f", "o", "r", "m", "a", "t", "i", "o", "n", ":">> \o <<"\n", "\n">>)
       [] p.type = "search_players" ->
            Await("searchPlayers", searchPlayers(p.params.query), p,
                  <<"S", "e", "a", "r", "c", "h", " ", "r", "e", "s", "u", "l", "t", "s", " ", "f", "o", "r", " ", "\"">> \o p.params.query \o <<"\"", ":">> \o <<"\n", "\n">>)
       [] p.type = "get_player_recent_matches" ->
            Await("getPlayerRecentMatches", getPlayerRecentMatches(p.params.account_id), p,
                  <<"R", "e", "c", "e", "n", "t", " ", "m", "a", "t", "c", "h", "e", "s", " ", "f", "o", "r", " ", "p", "l", "a", "y", "e", "r", " ">> \o Decimal(p.params.account_id)
                    \o <<":">> \o <<"\n", "\n">>)
       [] p.type = "get_player_heroes" ->
            Await("getPlayerHeroes", getPlayerHeroes(p.params.account_id), p,
                  <<"H", "e", "r", "o", " ", "s", "t", "a", "t", "i", "s", "t", "i", "c", "s", " ", "f", "o", "r", " ", "p", "l", "a", "y", "e", "r", " ">> \o Decimal(p.params.account_id)
                    \o <<":">> \o <<"\n", "\n">>)
       [] OTHER ->
            Await("searchPlayers", searchPlayers(q), p,
                  <<"S", "e", "a", "r", "c", "h", " ", "r", "e", "s", "u", "l", "t", "s", " ", "f", "o", "r", " ", "\"">> \o q \o <<"\"", ":">> \o <<"\n", "\n">>)

\* switch (parsed.type) of case 'natural_query'.
NaturalSwitch(p, q) ==
     CASE p.type = "get_match" ->
            Await("getMatch", getMatch(p.params.match_id), p,
                  <<"M", "a", "t", "c", "h", " ">> \o Decimal(p.params.match_id) \o <<" ", "i", "n", "f", "o", "r", "m", "a", "t", "i", "o", "n", ":">> \o <<"\n", "\n">>)
       [] p.type = "get_player" ->
            Await("getPlayer", getPlayer(p.params.account_id), p,
                  <<"P", "l", "a", "y", "e", "r", " ">> \o Decimal(p.params.account_id) \o <<" ", "i", "n", "f", "o", "r", "m", "a", "t", "i", "o", "n", ":">> \o <<"\n", "\n">>)
       [] p.type = "search_players" ->
            Await("searchPlayers", searchPlayers(p.params.query), p,
                  <<"S", "e", "a", "r", "c", "h", " ", "r", "e", "s", "u", "l", "t", "s", " ", "f", "o", "r", " ", "\"">> \o p.params.query \o <<"\"", ":">> \o <<"\n", "\n">>)
       [] p.type = "get_player_recent_matches" ->
            Await("getPlayerRecentMatches", getPlayerRecentMatches(p.params.account_id), p,
                  <<"R", "e", "c", "e", "n", "t", " ", "m", "a", "t", "c", "h", "e", "s", " ", "f", "o", "r", " ", "p", "l", "a", "y", "e", "r", " ">> \o Decimal(p.params.account_id)
                    \o <<":">> \o <<"\n", "\n">>)
       [] p.type = "get_player_heroes" ->
            Await("getPlayerHeroes", getPlayerHeroes(p.params.account_id), p,
                  <<"H", "e", "r", "o", " ", "s", "t", "a", "t", "i", "s", "t", "i", "c", "s", " ", "f", "o", "r", " ", "p", "l", "a", "y", "e", "r", " ">> \o Decimal(p.params.account_id)
                    \o <<":">> \o <<"\n", "\n">>)
       [] OTHER ->
            Return(p, Text(<<"I", " ", "c", "o", "u", "l", "d", "n", "'", "t", " ", "u", "n", "d", "e", "r", "s", "t", "a", "n", "d", " ", "y", "o", "u", "r", " ", "q", "u", "e", "r", "y", ":", " ", "\"">> \o q
                             \o <<"\"", ".", " ", "P", "l", "e", "a", "s", "e", " ", "t", "r", "y", " ", "a", "s", "k", "i", "n", "g", " ", "a", "b", "o", "u", "t", " ", "s", "p", "e", "c", "i", "f", "i", "c", " ", "m", "a", "t", "c", "h", "e", "s", ",", " ", "p", "l", "a", "y", "e", "r", "s", ",", " ", "o", "r", " ", "u", "s", "e", " ", "o", "n", "e", " ", "o", "f", " ", "t", "h", "e", " ", "a", "v", "a", "i", "l", "a", "b", "l", "e", " ", "t", "o", "o", "l", "s", ".">>,
                           NoJson, NoDetailsJson))

\* A variant that sends a heroes query to client.getPlayer.
HeroesAsPlayer(r) ==
  IF r.op = "getPlayerHeroes"
  THEN [r EXCEPT !.op = "getPlayer", !.request = getPlayer(r.natural.params.account_id)]
  ELSE r

NaturalQuery_heroesAsPlayer(q) == HeroesAsPlayer(NaturalSwitch(parseNaturalQuery(q), q))

\* case 'natural_query': parse the text, then switch on the parsed type.
NaturalQuery(q) == NaturalSwitch(parseNaturalQuery(q), q)

\* A variant with a tenth case, for the public matches.
TryBlock_publicMatches(name, a) ==
  CASE name = "get_match" ->
         LET z == ZodParse(GetMatchSchema, a)
         IN IF z.ok THEN Await("getMatch", getMatch(z.data.match_id.n), NoResult, <<>>)
            ELSE Throw(ZodError(z.issues))
    [] name = "get_player" ->
         LET z == ZodParse(GetPlayerSchema, a)
         IN IF z.ok THEN Await("getPlayer", getPlayer(z.data.account_id.n), NoResult, <<>>)
            ELSE Throw(ZodError(z.issues))
    [] name = "get_player_matches" ->
         LET z == ZodParse(GetPlayerMatchesSchema, a)
             \* { account_id, limit = 20, hero_id }
             limit == IF z.data.limit.t = "undefined" THEN Num(20) ELSE z.data.limit
         IN IF z.ok
            THEN Await("getPlayerMatches",
                       getPlayerMatches(z.data.account_id.n,
                                        [NoParams EXCEPT !["limit"] = limit,
                                                         !["hero_id"] = z.data.hero_id]),
                       NoResult, <<>>)
            ELSE Throw(ZodError(z.issues))
    [] name = "get_player_recent_matches" ->
         LET z == ZodParse(GetPlayerSchema, a)
         IN IF z.ok
            THEN Await("getPlayerRecentMatches", getPlayerRecentMatches(z.data.account_id.n),
                       NoResult, <<>>)
            ELSE Throw(ZodError(z.issues))
    [] name = "get_player_heroes" ->
         LET z == ZodParse(GetPlayerSchema, a)
         IN IF z.ok
            THEN Await("getPlayerHeroes", getPlayerHeroes(z.data.account_id.n), NoResult, <<>>)
            ELSE Throw(ZodError(z.issues))
    [] name = "search_players" ->
         LET z == ZodParse(SearchPlayersSchema, a)
         IN IF z.ok THEN Await("searchPlayers", searchPlayers(z.data.query.s), NoResult, <<>>)
            ELSE Throw(ZodError(z.issues))
    [] name = "get_heroes" -> Await("getHeroes", getHeroes, NoResult, <<>>)
    [] name = "get_pro_matches" -> Await("getProMatches", getProMatches, NoResult, <<>>)
    [] name = "natural_query" ->
         LET z == ZodParse(NaturalQuerySchema, a)
         IN IF z.ok THEN NaturalQuery(z.data.query.s) ELSE Throw(ZodError(z.issues))
    [] name = "get_public_matches" ->
         Await("getPublicMatches", getPublicMatches, NoResult, <<>>)
    [] OTHER -> Throw(PlainError(<<"U", "n", "k", "n", "o", "w", "n", " ", "t", "o", "o", "l", ":", " ">> \o NameText[name]))

\* switch (name) of the call-tool handler.
TryBlock(name, a) ==
  CASE name = "get_match" ->
         LET z == ZodParse(GetMatchSchema, a)
         IN IF z.ok THEN Await("getMatch", getMatch(z.data.match_id.n), NoResult, <<>>)
            ELSE Throw(ZodError(z.issues))
    [] name = "get_player" ->
         LET z == ZodParse(GetPlayerSchema, a)
         IN IF z.ok THEN Await("getPlayer", getPlayer(z.data.account_id.n), NoResult, <<>>)
            ELSE Throw(ZodError(z.issues))
    [] name = "get_player_matches" ->
         LET z == ZodParse(GetPlayerMatchesSchema, a)
             \* { account_id, limit = 20, hero_id }
             limit == IF z.data.limit.t = "undefined" THEN Num(20) ELSE z.data.limit
         IN IF z.ok
            THEN Await("getPlayerMatches",
                       getPlayerMatches(z.data.account_id.n,
                                        [NoParams EXCEPT !["limit"] = limit,
                                                         !["hero_id"] = z.data.hero_id]),
                       NoResult, <<>>)
            ELSE Throw(ZodError(z.issues))
    [] name = "get_player_recent_matches" ->
         LET z == ZodParse(GetPlayerSchema, a)
         IN IF z.ok
            THEN Await("getPlayerRecentMatches", getPlayerRecentMatches(z.data.account_id.n),
                       NoResult, <<>>)
            ELSE Throw(ZodError(z.issues))
    [] name = "get_player_heroes" ->
         LET z == ZodParse(GetPlayerSchema, a)
         IN IF z.ok
            THEN Await("getPlayerHeroes", getPlayerHeroes(z.data.account_id.n), NoResult, <<>>)
            ELSE Throw(ZodError(z.issues))
    [] name = "search_players" ->
         LET z == ZodParse(SearchPlayersSchema, a)
         IN IF z.ok THEN Await("searchPlayers", searchPlayers(z.data.query.s), NoResult, <<>>)
            ELSE Throw(ZodError(z.issues))
    [] name = "get_heroes" -> Await("getHeroes", getHeroes, NoResult, <<>>)
    [] name = "get_pro_matches" -> Await("getProMatches", getProMatches, NoResult, <<>>)
    [] name = "natural_query" ->
         LET z == ZodParse(NaturalQuerySchema, a)
         IN IF z.ok THEN NaturalQuery(z.data.query.s) ELSE Throw(ZodError(z.issues))
    [] OTHER -> Throw(PlainError(<<"U", "n", "k", "n", "o", "w", "n", " ", "t", "o", "o", "l", ":", " ">> \o NameText[name]))

\* A variant without the instanceof MCPError test: every error that is no
\* ZodError is wrapped.
ToMCPError_wrapAll(error) ==
  IF error.name = "ZodError"
  THEN ValidationError(<<"I", "n", "v", "a", "l", "i", "d", " ", "t", "o", "o", "l", " ", "a", "r", "g", "u", "m", "e", "n", "t", "s">>,
                       [NoDetails EXCEPT !.has = TRUE, !.zodError = error.details.zodError])
  ELSE MCPError("MCPError", error.message, "TOOL_EXECUTION_ERROR", 500,
                [NoDetails EXCEPT !.has = TRUE, !.originalError = error.name])

\* The catch block: the thrown value as an MCPError.  (Nothing in the try
\* block throws a value that is no Error, the last branch of the code.)
ToMCPError(error) ==
  IF error.name = "ZodError"
  THEN ValidationError(<<"I", "n", "v", "a", "l", "i", "d", " ", "t", "o", "o", "l", " ", "a", "r", "g", "u", "m", "e", "n", "t", "s">>,
                       [NoDetails EXCEPT !.has = TRUE, !.zodError = error.details.zodError])
  ELSE IF error.mcp
  THEN error
  ELSE MCPError("MCPError", error.message, "TOOL_EXECUTION_ERROR", 500,
                [NoDetails EXCEPT !.has = TRUE, !.originalError = error.name])

\* A variant that gives the details in every runtime mode.
ErrorText_always(mcpError) ==
  IF mcpError.details.has
  THEN Text(<<"E", "r", "r", "o", "r", ":", " ">> \o mcpError.message \o <<"\n", "\n">> \o <<"D", "e", "t", "a", "i", "l", "s", ":", " ">>,
            NoJson, JSONstringify(mcpError.details))
  ELSE Text(<<"E", "r", "r", "o", "r", ":", " ">> \o mcpError.message, NoJson, NoDetailsJson)

\* The text of a failed response: the details only in development.
ErrorText(mcpError) ==
  IF nodeEnv = "development" /\ mcpError.details.has
  THEN Text(<<"E", "r", "r", "o", "r", ":", " ">> \o mcpError.message \o <<"\n", "\n">> \o <<"D", "e", "t", "a", "i", "l", "s", ":", " ">>,
            NoJson, JSONstringify(mcpError.details))
  ELSE Text(<<"E", "r", "r", "o", "r", ":", " ">> \o mcpError.message, NoJson, NoDetailsJson)

\* A variant whose catch block passes on what is no MCPError and no ZodError.
HandlerCatch_rethrow(call, error) ==
  IF error.mcp \/ error.name = "ZodError"
  THEN [call EXCEPT !.pc = "done",
                    !.thrown = error,
                    !.logs = Append(call.logs,
                                    logToolExecution(call.name, FALSE, ToMCPError(error))),
                    !.response = ErrorResponse(ErrorText(ToMCPError(error))),
                    !.outcome = "returned"]
  ELSE [call EXCEPT !.pc = "done", !.thrown = error, !.outcome = "threw"]

\* The catch block on a call: log the failure, return the failed response.
HandlerCatch(call, error) ==
  [call EXCEPT !.pc = "done",
               !.thrown = error,
               !.logs = Append(call.logs, logToolExecution(call.name, FALSE, ToMCPError(error))),
               !.response = ErrorResponse(ErrorText(ToMCPError(error))),
               !.outcome = "returned"]

\* ----------------------------------------------------------- invocations

CallIds == 1..MaxCalls

NodeEnvs == { "development", "production" }

Args_match5 == With(ArgsEmpty, "match_id", Num(5))
Args_account7 == With(ArgsEmpty, "account_id", Num(7))

\* The texts sent to natural_query.
NaturalTexts ==
  { T_match(Decimal(5)), T_player(Decimal(7)), T_named(<<"F", "o", "o">>), T_recent(Decimal(7)),
    T_heroes(Decimal(7)), T_recentFor(Decimal(7)), <<"H", "e", "l", "l", "o", " ", "W", "o", "r", "l", "d">> }

\* The argument objects a caller sends with each tool name.
ArgsFor(name) ==
  { ArgsUndefined, ArgsEmpty } \cup
  CASE name = "get_match" ->
         { Args_match5, With(ArgsEmpty, "match_id", Str(<<"5">>)),
           With(Args_match5, "query", Str(<<"F", "o", "o">>)) }
    [] name \in { "get_player", "get_player_recent_matches", "get_player_heroes" } ->
         { Args_account7, With(ArgsEmpty, "account_id", Str(<<"7">>)) }
    [] name = "get_player_matches" ->
         { Args_account7, With(ArgsEmpty, "account_id", Str(<<"7">>)),
           With(Args_account7, "limit", Num(10)), With(Args_account7, "limit", Str(<<"1", "0">>)),
           With(Args_account7, "hero_id", Num(1)),
           With(With(Args_account7, "limit", Num(10)), "hero_id", Num(1)),
           With(ArgsEmpty, "limit", Num(10)) }
    [] name = "search_players" ->
         { With(ArgsEmpty, "query", Str(<<"F", "o", "o">>)), With(ArgsEmpty, "query", Num(5)) }
    [] name = "natural_query" ->
         { With(ArgsEmpty, "query", Str(q)) : q \in NaturalTexts }
           \cup { With(ArgsEmpty, "query", Num(5)) }
    [] OTHER -> { Args_match5 }

\* The argument objects of every name a caller sends, as a table.
ToolArguments == [name \in ToolNames \cup UnknownTools |-> ArgsFor(name)]

\* ---------------------------------------------------------------- actions

Init ==
  /\ query = <<>>
  /\ parsed = NoResult
  /\ calls = [c \in CallIds |-> IdleCall]
  /\ apiKey \in ApiKeys
  /\ nodeEnv \in NodeEnvs

\* The call after its try block ran to r: waiting for the client, or done.
Started(call, r) ==
  CASE r.kind = "await" ->
         [call EXCEPT !.pc = "awaiting", !.op = r.op, !.natural = r.natural,
                      !.label = r.label, !.request = r.request, !.nrequests = 1,
                      !.logs = Append(call.logs, ApiStartEntry(r.request))]
    [] r.kind = "return" ->
         [call EXCEPT !.pc = "done", !.natural = r.natural,
                      !.response = SuccessResponse(r.text), !.outcome = "returned"]
    [] OTHER -> HandlerCatch(call, r.error)

\* A tool call arrives: the handler runs to its first await, or to its end
\* when it makes no client call.
CallTool(c, name, a) ==
  /\ calls[c].pc = "idle"
  /\ calls' = [calls EXCEPT ![c] =
       Started([IdleCall EXCEPT !.name = name, !.args = a,
                                !.logs = <<ToolStartEntry(name)>>],
               TryBlock(name, a))]
  /\ UNCHANGED <<query, parsed, apiKey, nodeEnv>>

\* A variant that writes no log entry for a request that succeeded.
AxiosResolve_unlogged(c, resp) ==
  /\ calls[c].pc = "awaiting"
  /\ LET call == calls[c]
         logged == call.logs
     IN calls' = [calls EXCEPT ![c] =
          [call EXCEPT !.pc = "done",
                       !.settled = [kind |-> "resolved", status |-> resp.status,
                                    data |-> resp.data, error |-> NoAxiosError],
                       !.logs = IF call.name = "get_match"
                                THEN Append(logged, logToolExecution(call.name, TRUE, NoError))
                                ELSE logged,
                       !.response = SuccessResponse(Text(call.label, JSONstringify(ReturnData(resp)),
                                                         NoDetailsJson)),
                       !.outcome = "returned"]]
  /\ UNCHANGED <<query, parsed, apiKey, nodeEnv>>

\* A variant in which the reply to one request settles every request in flight.
AxiosResolve_shared(c, resp) ==
  /\ calls[c].pc = "awaiting"
  /\ calls' = [d \in DOMAIN calls |->
       IF calls[d].pc = "awaiting"
       THEN [calls[d] EXCEPT
               !.pc = "done",
               !.settled = [kind |-> "resolved", status |-> resp.status,
                            data |-> resp.data, error |-> NoAxiosError],
               !.logs = Append(calls[d].logs,
                               logApiCall(calls[d].request.method, calls[d].request.url,
                                          resp.status, NoError)),
               !.response = SuccessResponse(Text(calls[d].label,
                                                 JSONstringify(ReturnData(resp)),
                                                 NoDetailsJson)),
               !.outcome = "returned"]
       ELSE calls[d]]
  /\ UNCHANGED <<query, parsed, apiKey, nodeEnv>>

\* axios.get resolves: makeRequest logs the call and returns response.data;
\* the handler serialises it (get_match also logs its success).
AxiosResolve(c, resp) ==
  /\ calls[c].pc = "awaiting"
  /\ LET call == calls[c]
         logged == Append(call.logs, logApiCall(call.request.method, call.request.url,
                                                resp.status, NoError))
     IN calls' = [calls EXCEPT ![c] =
          [call EXCEPT !.pc = "done",
                       !.settled = [kind |-> "resolved", status |-> resp.status,
                                    data |-> resp.data, error |-> NoAxiosError],
                       !.logs = IF call.name = "get_match"
                                THEN Append(logged, logToolExecution(call.name, TRUE, NoError))
                                ELSE logged,
                       !.response = SuccessResponse(Text(call.label, JSONstringify(ReturnData(resp)),
                                                         NoDetailsJson)),
                       !.outcome = "returned"]]
  /\ UNCHANGED <<query, parsed, apiKey, nodeEnv>>

\* A variant that sends the request once more after a first failure.
AxiosReject_retry(c, e) ==
  /\ calls[c].pc = "awaiting"
  /\ LET call == calls[c]
         logged == [call EXCEPT
                      !.settled = [kind |-> "rejected",
                                   status |-> IF e.hasResponse THEN e.status ELSE 0,
                                   data |-> e.data, error |-> e],
                      !.logs = Append(call.logs,
                                      logApiCall(call.request.method, call.request.url,
                                                 IF e.hasResponse THEN e.status ELSE 0,
                                                 LoggedApiError(e)))]
     IN calls' = [calls EXCEPT ![c] =
          IF call.nrequests < 2
          THEN [call EXCEPT !.nrequests = 2,
                            !.logs = Append(call.logs, ApiStartEntry(call.request))]
          ELSE HandlerCatch(logged, ThrownApiError(e))]
  /\ UNCHANGED <<query, parsed, apiKey, nodeEnv>>

\* A variant that sends the request again after every failure, without end.
AxiosReject_retryForever(c, e) ==
  /\ calls[c].pc = "awaiting"
  /\ calls' = [calls EXCEPT ![c] =
       [calls[c] EXCEPT !.nrequests = 2,
                        !.settled = [kind |-> "rejected",
                                     status |-> IF e.hasResponse THEN e.status ELSE 0,
                                     data |-> e.data, error |-> e]]]
  /\ UNCHANGED <<query, parsed, apiKey, nodeEnv>>

\* axios.get rejects: makeRequest logs the failure and throws a TimeoutError
\* or an APIError, which the catch block of the handler turns into a response.
AxiosReject(c, e) ==
  /\ calls[c].pc = "awaiting"
  /\ LET call == calls[c]
         logged == [call EXCEPT
                      !.settled = [kind |-> "rejected",
                                   status |-> IF e.hasResponse THEN e.status ELSE 0,
                                   data |-> e.data, error |-> e],
                      !.logs = Append(call.logs,
                                      logApiCall(call.request.method, call.request.url,
                                                 IF e.hasResponse THEN e.status ELSE 0,
                                                 LoggedApiError(e)))]
     IN calls' = [calls EXCEPT ![c] = HandlerCatch(logged, ThrownApiError(e))]
  /\ UNCHANGED <<query, parsed, apiKey, nodeEnv>>

\* A variant in which the label of a call stays behind for the next call.
Respond_keepLabel(c) ==
  /\ calls[c].pc = "done"
  /\ calls' = [calls EXCEPT ![c] = [IdleCall EXCEPT !.label = calls[c].label]]
  /\ UNCHANGED <<query, parsed, apiKey, nodeEnv>>

\* The transport sends the response of a finished call; the next call may come.
Respond(c) ==
  /\ calls[c].pc = "done"
  /\ calls' = [calls EXCEPT ![c] = IdleCall]
  /\ UNCHANGED <<query, parsed, apiKey, nodeEnv>>

\* A list-tools request arrives: its handler returns { tools }.
ListTools(c) ==
  /\ calls[c].pc = "idle"
  /\ calls' = [calls EXCEPT ![c] =
       [IdleCall EXCEPT !.pc = "done", !.name = "tools/list", !.listing = ToolNames,
                        !.outcome = "returned"]]
  /\ UNCHANGED <<query, parsed, apiKey, nodeEnv>>

Next ==
  \E c \in CallIds :
    \/ ListTools(c)
    \/ \E name \in ToolNames \cup UnknownTools : \E a \in ToolArguments[name] : CallTool(c, name, a)
    \/ \E resp \in Responses : AxiosResolve(c, resp)
    \/ \E e \in AxiosErrors : AxiosReject(c, e)
    \/ Respond(c)

Spec == Init /\ [][Next]_vars

\* ------------------------------------------------- claims on the handler

\* The arguments miss a field the tool list declares required for the tool,
\* or give it another type than the declared one (arguments that are no
\* object miss every field).
BadRequired(name, a) ==
  \E f \in DeclaredRequired[name] : ~a.obj \/ a.fields[f].t # DeclaredType[f]

ToolsWithRequired == { name \in ToolNames : DeclaredRequired[name] # {} }

\* The request in the slot is a tool call (not a list-tools request).
IsToolCall(call) == call.name \in ToolNames \cup UnknownTools

\* The last entry of the log of a call.
LastLog(call) == call.logs[Len(call.logs)]

\* C8: an invocation of a tool with required arguments whose arguments miss a
\* required field or give it the wrong type ends at once with a failed
\* response classified ValidationError (VALIDATION_ERROR, 400), and the
\* client is never called during it: no request is built, none is awaited,
\* none is logged.
C8_ValidationBeforeClient ==
  \A c \in CallIds :
    LET call == calls[c]
    IN (call.pc # "idle" /\ call.name \in ToolsWithRequired /\ BadRequired(call.name, call.args))
       => /\ call.pc = "done"
          /\ call.outcome = "returned"
          /\ call.response.content = "text"
          /\ call.response.isError
          /\ call.response.text.prefix = <<"E", "r", "r", "o", "r", ":", " ", "I", "n", "v", "a", "l", "i", "d", " ", "t", "o", "o", "l", " ", "a", "r", "g", "u", "m", "e", "n", "t", "s">> \o
               (IF nodeEnv = "development" THEN <<>> \o <<"\n", "\n">> \o <<"D", "e", "t", "a", "i", "l", "s", ":", " ">> ELSE <<>>)
          /\ LastLog(call).type = "tool_execution"
          /\ LastLog(call).error.name = "ValidationError"
          /\ LastLog(call).error.code = "VALIDATION_ERROR"
          /\ LastLog(call).error.statusCode = 400
          /\ call.nrequests = 0
          /\ call.request = NoRequest
          /\ call.settled = NoSettle
          /\ \A i \in 1..Len(call.logs) :
               call.logs[i].type \notin { "api_request_start", "api_call" }

\* get_match was invoked with {} or with a string for match_id, and the call has
\* ended in a failed response.
C8_Witness ==
  \E c \in CallIds :
    /\ calls[c].pc = "done"
    /\ calls[c].name = "get_match"
    /\ calls[c].args \in { ArgsEmpty, With(ArgsEmpty, "match_id", Str(<<"5">>)) }
    /\ calls[c].response.isError
    /\ calls[c].nrequests = 0

\* C9: whatever the tool name, the arguments and the outcome of the upstream
\* call, a finished invocation has returned an envelope with text content
\* whose isError flag is set exactly when something was thrown during the
\* invocation; nothing is thrown out of the handler.
C9_AlwaysEnvelope ==
  \A c \in CallIds :
    LET call == calls[c]
    IN /\ call.outcome # "threw"
       /\ (call.pc = "done" /\ IsToolCall(call))
          => /\ call.outcome = "returned"
             /\ call.response.content = "text"
             /\ call.response.isError <=> call.thrown # NoError
             /\ call.settled.kind = "rejected" => call.thrown # NoError

\* An unknown tool name has been answered with a failed response.
C9_Witness ==
  \E c \in CallIds :
    /\ calls[c].pc = "done"
    /\ calls[c].name \in UnknownTools
    /\ calls[c].thrown.name = "Error"
    /\ calls[c].response.isError
    /\ calls[c].outcome = "returned"

\* The error codes of a timeout: the request timer of axios, and the timeout
\* of the operating system.
TimeoutCodes == { "ECONNABORTED", "ETIMEDOUT" }

\* C10: a request the upstream does not answer within the configured timeout
\* fails with TimeoutError; every rejection whose code is a timeout or whose
\* message indicates a timeout is thrown as TimeoutError; every rejection is
\* thrown as exactly one of TimeoutError and APIError.
C10_TimeoutClassified ==
  \A c \in CallIds :
    LET e == calls[c].settled.error
        thrown == calls[c].thrown
    IN calls[c].settled.kind = "rejected"
       => /\ thrown.name \in { "TimeoutError", "APIError" }
          /\ thrown.name = "TimeoutError" <=> thrown.code = "TIMEOUT_ERROR"
          /\ thrown.name = "APIError" <=> thrown.code = "API_ERROR"
          /\ e.message = TimeoutMessage => thrown.name = "TimeoutError"
          /\ (e.code \in TimeoutCodes \/ includes(e.message, <<"t", "i", "m", "e", "o", "u", "t">>))
               => thrown.name = "TimeoutError"

\* --------------------------------------------------- claims on the client

\* C11: a rejection that carries an upstream reply with status S and body B is
\* thrown as an APIError whose status is S and whose details hold B; a
\* rejection without a reply that is no timeout (connection refused, DNS
\* failure) is thrown as an APIError with status 500.
C11_ApiErrorStatus ==
  \A c \in CallIds :
    LET e == calls[c].settled.error
        thrown == calls[c].thrown
    IN calls[c].settled.kind = "rejected"
       => /\ e.hasResponse
             => /\ thrown.name = "APIError"
                /\ thrown.code = "API_ERROR"
                /\ thrown.statusCode = e.status
                /\ thrown.details.has
                /\ thrown.details.response = e.data
          /\ (~e.hasResponse /\ e.code \in { "ECONNREFUSED", "ENOTFOUND" })
             => /\ thrown.name = "APIError"
                /\ thrown.statusCode = 500

\* The upstream has answered 404 or 504, and the call has ended with that status.
C11_Witness ==
  \E c \in CallIds :
    /\ calls[c].settled.kind = "rejected"
    /\ calls[c].settled.error \in { E_notFound, E_gatewayTimeout }
    /\ calls[c].thrown.statusCode \in { 404, 504 }
    /\ calls[c].thrown.details.response \in { NotFoundBody, GatewayTimeoutBody }

\* C12: on a 2xx reply the client returns the body as received, whatever its
\* shape: the text of the response is the serialised body of the reply, also
\* for a body that is a plain string where an array is expected.
C12_BodyUnchanged ==
  \A c \in CallIds :
    calls[c].settled.kind = "resolved"
    => /\ calls[c].pc = "done"
       /\ calls[c].thrown = NoError
       /\ ~calls[c].response.isError
       /\ calls[c].response.text.payload = JSONstringify(calls[c].settled.data)

\* get_heroes has been answered with a plain string, and has returned it.
C12_Witness ==
  \E c \in CallIds :
    /\ calls[c].name = "get_heroes"
    /\ calls[c].settled.kind = "resolved"
    /\ calls[c].settled.data = InvalidJson
    /\ calls[c].response.text.payload.value = InvalidJson
    /\ ~calls[c].response.isError

\* The number of entries of a type in the log of a call.
Logged(call, type) ==
  Cardinality({ i \in 1..Len(call.logs) : call.logs[i].type = type })

\* C13: an invocation sends at most one request to the upstream, and none
\* after a failure: a call that waits has sent exactly one, a call whose request
\* has settled (resolved or rejected) is done and has sent exactly that one.
C13_OneRequest ==
  \A c \in CallIds :
    LET call == calls[c]
    IN /\ call.nrequests \in { 0, 1 }
       /\ Logged(call, "api_request_start") = call.nrequests
       /\ call.pc = "awaiting" => (call.nrequests = 1 /\ call.settled = NoSettle)
       /\ call.settled # NoSettle => (call.pc = "done" /\ call.nrequests = 1)
       /\ call.request # NoRequest <=> call.nrequests = 1

\* A request has been rejected, and the call has ended having sent one request.
C13_Witness ==
  \E c \in CallIds :
    /\ calls[c].settled.kind = "rejected"
    /\ calls[c].pc = "done"
    /\ calls[c].nrequests = 1
    /\ Logged(calls[c], "api_request_start") = 1

\* A key is configured: OPENDOTA_API_KEY is set to a text that is not empty.
KeyConfigured == apiKey.set /\ apiKey.v # <<>>

\* The query parameters the caller of makeRequest gives, from the tool call.
GivenParams(call) ==
  CASE call.op = "getPlayerMatches" ->
         [NoParams EXCEPT
            !["limit"] = IF call.args.fields["limit"].t = "undefined"
                         THEN Num(20) ELSE call.args.fields["limit"],
            !["hero_id"] = call.args.fields["hero_id"]]
    [] call.op = "searchPlayers" ->
         [NoParams EXCEPT
            !["q"] = IF call.name = "natural_query"
                     THEN Str(call.natural.params.query)
                     ELSE call.args.fields["query"]]
    [] OTHER -> NoParams

\* C14: every request carries api_key equal to the configured key when one is
\* configured and no api_key when none is; its other parameters are those the
\* caller gave ({limit, hero_id} for getPlayerMatches, {q} for searchPlayers,
\* none for the other methods).
C14_ApiKeyParam ==
  \A c \in CallIds :
    LET call == calls[c]
    IN call.request # NoRequest
       => /\ call.request.params["api_key"] =
               (IF KeyConfigured THEN Str(apiKey.v) ELSE Undef)
          /\ \A f \in ParamFields \ { "api_key" } :
               call.request.params[f] = GivenParams(call)[f]

\* With a key configured, get_player_matches was called with a limit and a
\* hero, and its request carries the three parameters.
C14_Witness ==
  \E c \in CallIds :
    /\ KeyConfigured
    /\ calls[c].op = "getPlayerMatches"
    /\ calls[c].request.params["limit"] = Num(10)
    /\ calls[c].request.params["hero_id"] = Num(1)
    /\ calls[c].request.params["api_key"] = Str(apiKey.v)

\* ------------------------------------------- claims on the responses

\* A finished tool call.
Done(call) == call.pc = "done" /\ IsToolCall(call)

\* The text a natural_query call was given.
QueryText(call) == call.args.fields["query"].s

\* The text of the fallback: the query between double quotes, then the advice.
FallbackText(q) ==
  <<"I", " ", "c", "o", "u", "l", "d", "n", "'", "t", " ", "u", "n", "d", "e", "r", "s", "t", "a", "n", "d", " ", "y", "o", "u", "r", " ", "q", "u", "e", "r", "y", ":", " ", "\"">> \o q \o
  <<"\"", ".", " ", "P", "l", "e", "a", "s", "e", " ", "t", "r", "y", " ", "a", "s", "k", "i", "n", "g", " ", "a", "b", "o", "u", "t", " ", "s", "p", "e", "c", "i", "f", "i", "c", " ", "m", "a", "t", "c", "h", "e", "s", ",", " ", "p", "l", "a", "y", "e", "r", "s", ",", " ", "o", "r", " ", "u", "s", "e", " ", "o", "n", "e", " ", "o", "f", " ", "t", "h", "e", " ", "a", "v", "a", "i", "l", "a", "b", "l", "e", " ", "t", "o", "o", "l", "s", ".">>

\* The call is a natural_query call that was dispatched to the fallback.
FellBack(call) ==
  /\ call.name = "natural_query"
  /\ call.args.obj
  /\ call.args.fields["query"].t = "string"
  /\ call.natural.type = "search"

\* C15: a natural_query call whose text is dispatched to search returns a
\* plain text that quotes the query as it was given, with no error flag and no
\* serialised payload, and sends no request to the upstream.
C15_FallbackNoCall ==
  \A c \in CallIds :
    LET call == calls[c]
    IN (call.pc # "idle" /\ FellBack(call))
       => /\ call.pc = "done"
          /\ call.outcome = "returned"
          /\ ~call.response.isError
          /\ call.response.content = "text"
          /\ call.response.text = Text(FallbackText(QueryText(call)), NoJson, NoDetailsJson)
          /\ call.nrequests = 0
          /\ call.request = NoRequest
          /\ call.settled = NoSettle

\* natural_query was called with Hello World, and has been answered.
C15_Witness ==
  \E c \in CallIds :
    /\ calls[c].pc = "done"
    /\ FellBack(calls[c])
    /\ QueryText(calls[c]) = <<"H", "e", "l", "l", "o", " ", "W", "o", "r", "l", "d">>
    /\ calls[c].nrequests = 0

\* The call succeeded in full: no error flag, the whole body of the 2xx reply.
FullySucceeded(call) ==
  /\ ~call.response.isError
  /\ call.settled.kind = "resolved"
  /\ call.response.text.payload = JSONstringify(call.settled.data)

\* The call failed in full: the error flag, and no body of a 2xx reply.
FullyFailed(call) ==
  /\ call.response.isError
  /\ call.thrown # NoError
  /\ call.response.text.payload = NoJson

\* C16 as stated: every finished tool call has either succeeded in full or
\* failed in full.
C16_Original ==
  \A c \in CallIds :
    Done(calls[c]) => (FullySucceeded(calls[c]) \/ FullyFailed(calls[c]))

\* C16: every finished tool call has succeeded in full, failed in full, or is
\* a natural_query call dispatched to the fallback, which returns its
\* explanatory text with no error flag, no payload and no request sent.
C16_SuccessFailureOrFallback ==
  \A c \in CallIds :
    LET call == calls[c]
    IN Done(call)
       => \/ FullySucceeded(call) /\ ~FellBack(call)
          \/ FullyFailed(call) /\ ~FellBack(call)
          \/ /\ FellBack(call)
             /\ ~call.response.isError
             /\ call.response.text.payload = NoJson
             /\ call.nrequests = 0

\* In development a call was answered 404: its response has the error flag and
\* no payload, and its details quote the body of the reply.
C16_Witness ==
  \E c \in CallIds :
    /\ Done(calls[c])
    /\ nodeEnv = "development"
    /\ calls[c].settled.error = E_notFound
    /\ FullyFailed(calls[c])
    /\ calls[c].response.text.details.value.response = NotFoundBody

\* s begins with w.
StartsWith(s, w) == Len(s) >= Len(w) /\ SubSeq(s, 1, Len(w)) = w

\* C17: a failed response holds the message of the error after "Error: "; it
\* holds the details of the error in development (every error the handler
\* reports has details) and no details in any other runtime mode.
C17_DetailsInDevelopmentOnly ==
  \A c \in CallIds :
    LET call == calls[c]
        mcpError == ToMCPError(call.thrown)
    IN (Done(call) /\ call.response.isError)
       => /\ StartsWith(call.response.text.prefix, <<"E", "r", "r", "o", "r", ":", " ">> \o mcpError.message)
          /\ mcpError.message # <<>>
          /\ nodeEnv # "development"
             => /\ call.response.text.details = NoDetailsJson
                /\ call.response.text.prefix = <<"E", "r", "r", "o", "r", ":", " ">> \o mcpError.message
          /\ nodeEnv = "development"
             => /\ mcpError.details.has
                /\ call.response.text.details = JSONstringify(mcpError.details)

\* In production a request was refused: the failed response holds the message
\* and none of the details the error has.
C17_Witness ==
  \E c \in CallIds :
    /\ Done(calls[c])
    /\ nodeEnv = "production"
    /\ calls[c].settled.error = E_refused
    /\ calls[c].thrown.details.has
    /\ calls[c].response.isError
    /\ calls[c].response.text.details = NoDetailsJson

\* ------------------------------------------------- claims on the log

\* The entries of a type in the log of a call, in their order.
Entries(call, type) == SelectSeq(call.logs, LAMBDA e : e.type = type)

\* The place of the first entry of a type in the log of a call (0: none).
FirstAt(call, type) ==
  IF Logged(call, type) = 0 THEN 0
  ELSE CHOOSE i \in 1..Len(call.logs) :
         /\ call.logs[i].type = type
         /\ \A j \in 1..(i - 1) : call.logs[j].type # type

\* C18: every finished tool call has logged one start entry with the tool name
\* and the arguments, and exactly one completion entry with the duration and
\* the success flag, carrying the error when the call failed.
C18_StartAndCompletionLogged ==
  \A c \in CallIds :
    LET call == calls[c]
        start == Entries(call, "tool_request_start")
        completion == Entries(call, "tool_execution")
    IN Done(call)
       => /\ Len(start) = 1
          /\ start[1].toolName = call.name
          /\ { "toolName", "arguments" } \subseteq start[1].keys
          /\ Len(completion) = 1
          /\ completion[1].toolName = call.name
          /\ { "duration", "success" } \subseteq completion[1].keys
          /\ completion[1].success <=> ~call.response.isError
          /\ call.response.isError => completion[1].error = ToMCPError(call.thrown)

\* C19: every request sent to the upstream has exactly one api_call log entry
\* once it has settled and none before; the entry holds the method, the URL,
\* the status of the reply when there is one and a duration; it comes after
\* the start entry of the request and before the completion entry of the
\* tool, that is before the handler has the result or the error.
C19_OneApiCallEntry ==
  \A c \in CallIds :
    LET call == calls[c]
        entries == Entries(call, "api_call")
    IN /\ call.settled = NoSettle => Len(entries) = 0
       /\ call.settled # NoSettle
          => /\ Len(entries) = 1
             /\ { "method", "url", "statusCode", "duration" } \subseteq entries[1].keys
             /\ entries[1].method = "GET"
             /\ entries[1].url = call.request.url
             /\ entries[1].statusCode = call.settled.status
             /\ call.settled.kind = "resolved" => entries[1].statusCode = 200
             /\ (call.settled.kind = "rejected" /\ ~call.settled.error.hasResponse)
                => entries[1].statusCode = 0
             /\ call.settled.kind = "rejected" <=> entries[1].error # NoError
             /\ FirstAt(call, "api_request_start") < FirstAt(call, "api_call")
             /\ FirstAt(call, "api_request_start") > 0
             /\ Logged(call, "tool_execution") > 0
                => FirstAt(call, "api_call") < FirstAt(call, "tool_execution")

\* get_player was answered 200: the call has one api_call entry, with status 200
\* at level info.
C19_Witness ==
  \E c \in CallIds :
    /\ calls[c].name = "get_player"
    /\ calls[c].settled.kind = "resolved"
    /\ Len(Entries(calls[c], "api_call")) = 1
    /\ Entries(calls[c], "api_call")[1].level = "info"
    /\ Entries(calls[c], "api_call")[1].statusCode = 200

\* ------------------------------------------- claims on the tool list

\* The nine names of the tool list.
NineTools ==
  { "get_match", "get_player", "get_player_matches", "get_player_recent_matches",
    "get_player_heroes", "search_players", "get_heroes", "get_pro_matches", "natural_query" }

\* C20: every listing is the same set of nine names; a call of a listed name
\* is never answered with Unknown tool; a call of any other name is answered
\* with a failed response (Unknown tool and the name) and sends no request; no
\* call reaches getPublicMatches.
C20_FixedToolList ==
  /\ ToolNames = NineTools
  /\ Cardinality(ToolNames) = 9
  /\ \A c \in CallIds :
       LET call == calls[c]
       IN /\ call.listing \in { NoListing, NineTools }
          /\ (call.pc = "done" /\ call.name = "tools/list") => call.listing = NineTools
          /\ call.name # "tools/list" => call.listing = NoListing
          /\ call.op # "getPublicMatches"
          /\ call.request.url # baseURL \o <<"/", "p", "u", "b", "l", "i", "c", "M", "a", "t", "c", "h", "e", "s">>
          /\ (Done(call) /\ call.name \in NineTools)
             => /\ ~StartsWith(call.response.text.prefix, <<"E", "r", "r", "o", "r", ":", " ", "U", "n", "k", "n", "o", "w", "n", " ", "t", "o", "o", "l">>)
                /\ call.thrown.name # "Error"
          /\ (call.pc # "idle" /\ IsToolCall(call) /\ call.name \notin NineTools)
             => /\ call.pc = "done"
                /\ call.response.isError
                /\ StartsWith(call.response.text.prefix,
                              <<"E", "r", "r", "o", "r", ":", " ", "U", "n", "k", "n", "o", "w", "n", " ", "t", "o", "o", "l", ":", " ">> \o NameText[call.name])
                /\ call.nrequests = 0
                /\ call.request = NoRequest

\* The tool list was asked for, and the nine names were returned.
C20_Witness ==
  \E c \in CallIds :
    /\ calls[c].pc = "done"
    /\ calls[c].name = "tools/list"
    /\ calls[c].listing = NineTools
    /\ Cardinality(calls[c].listing) = 9

\* ------------------------------------- claims on natural_query dispatch

\* The five operations of the dispatcher that name a direct tool.
DirectOperations ==
  { "get_match", "get_player", "search_players", "get_player_recent_matches",
    "get_player_heroes" }

\* The arguments object that carries the parameters p.params to the direct
\* tool p.type.
DirectArgs(p) ==
  CASE p.type = "get_match" -> With(ArgsEmpty, "match_id", Num(p.params.match_id))
    [] p.type = "search_players" -> With(ArgsEmpty, "query", Str(p.params.query))
    [] OTHER -> With(ArgsEmpty, "account_id", Num(p.params.account_id))

\* The call, started by natural_query, against the start d of the direct tool
\* on the same parameters: the same client method and request, and on success
\* a label followed by the serialised reply the direct tool returns.
AsDirectTool(call, d) ==
  /\ d.kind = "await"
  /\ call.op = d.op
  /\ call.request = d.request
  /\ call.nrequests = 1
  /\ call.label # <<>>
  /\ d.label = <<>>
  /\ call.settled.kind = "resolved"
       => /\ call.response.text.prefix = call.label
          /\ [call.response EXCEPT !.text.prefix = d.label]
               = SuccessResponse(Text(d.label, JSONstringify(call.settled.data), NoDetailsJson))

\* C25: a natural_query call whose text is dispatched to one of the five
\* direct operations with parameters P calls the client method, with the
\* request, that the direct tool of that name makes for P, and its text on
\* success is a label followed by the serialisation the direct tool returns.
C25_NaturalAsDirect ==
  \A c \in CallIds :
    LET call == calls[c]
    IN (call.name = "natural_query" /\ call.natural # NoResult
        /\ call.natural.type \in DirectOperations)
       => AsDirectTool(call, TryBlock(call.natural.type, DirectArgs(call.natural)))

\* "heroes 7" has been sent to natural_query, answered by client.getPlayerHeroes(7).
C25_Witness ==
  \E c \in CallIds :
    /\ calls[c].pc = "done"
    /\ calls[c].name = "natural_query"
    /\ QueryText(calls[c]) = T_heroes(Decimal(7))
    /\ calls[c].op = "getPlayerHeroes"
    /\ calls[c].request = getPlayerHeroes(7)
    /\ calls[c].settled.kind = "resolved"
    /\ calls[c].response.text.prefix # <<>>
    /\ calls[c].response.text.payload = JSONstringify(HeroList)

\* ------------------------------------------------ claims on error kinds

\* The error the catch block reports for a failed call: the one it hands to
\* logToolExecution, whose message it writes into the response.
Reported(call) == LastLog(call).error

\* The arguments violate the input schema the tool list declares for the
\* tool: they are no object, a required field is missing, or a field has
\* another type than the declared one.
BadSchema(call) ==
  /\ call.name \in ToolsWithRequired
  /\ \/ ~call.args.obj
     \/ \E f \in DeclaredProperties[call.name] :
          /\ call.args.fields[f].t # DeclaredType[f]
          /\ f \in DeclaredRequired[call.name] \/ call.args.fields[f].t # "undefined"

\* C26: the error reported for a failed invocation is of exactly one of four
\* kinds: ValidationError (VALIDATION_ERROR, 400) for a schema violation; the
\* TimeoutError or the APIError thrown by the client, unchanged in kind,
\* status, message and details; a generic MCPError with status 500 and the
\* message of the thrown value for anything else.  The response text starts
\* with "Error: " and the reported message.
C26_FourKinds ==
  \A c \in CallIds :
    LET call == calls[c]
    IN (Done(call) /\ call.thrown # NoError)
       => /\ LastLog(call).type = "tool_execution"
          /\ ~LastLog(call).success
          /\ Reported(call).name \in { "ValidationError", "TimeoutError", "APIError", "MCPError" }
          /\ call.thrown.name \in { "ZodError", "TimeoutError", "APIError", "Error" }
          /\ call.thrown.name = "ZodError"
               <=> /\ Reported(call).name = "ValidationError"
                   /\ Reported(call).code = "VALIDATION_ERROR"
                   /\ Reported(call).statusCode = 400
          /\ call.thrown.name = "ZodError" <=> call.nrequests = 0 /\ BadSchema(call)
          /\ call.thrown.name \in { "TimeoutError", "APIError" }
               <=> call.settled.kind = "rejected"
          /\ call.thrown.name \in { "TimeoutError", "APIError" }
               => Reported(call) = call.thrown
          /\ call.thrown.name = "Error"
               <=> /\ Reported(call).name = "MCPError"
                   /\ Reported(call).statusCode = 500
                   /\ Reported(call).message = call.thrown.message
          /\ StartsWith(call.response.text.prefix, <<"E", "r", "r", "o", "r", ":", " ">> \o Reported(call).message)

\* A request that ran into its timeout has been reported as the TimeoutError
\* (408) the client threw.
C26_Witness ==
  \E c \in CallIds :
    /\ Done(calls[c])
    /\ calls[c].settled.error = E_timeout
    /\ calls[c].thrown.name = "TimeoutError"
    /\ Reported(calls[c]) = calls[c].thrown
    /\ Reported(calls[c]).statusCode = 408

\* ------------------------------------------- claims on the direct tools

\* The endpoint a direct tool requests for the arguments a.
DirectEndpoint(name, a) ==
  CASE name = "get_match" -> <<"/", "m", "a", "t", "c", "h", "e", "s", "/">> \o Decimal(a.fields["match_id"].n)
    [] name = "get_player" -> <<"/", "p", "l", "a", "y", "e", "r", "s", "/">> \o Decimal(a.fields["account_id"].n)
    [] name = "get_player_matches" ->
         <<"/", "p", "l", "a", "y", "e", "r", "s", "/">> \o Decimal(a.fields["account_id"].n) \o <<"/", "m", "a", "t", "c", "h", "e", "s">>
    [] name = "get_player_recent_matches" ->
         <<"/", "p", "l", "a", "y", "e", "r", "s", "/">> \o Decimal(a.fields["account_id"].n) \o <<"/", "r", "e", "c", "e", "n", "t", "M", "a", "t", "c", "h", "e", "s">>
    [] name = "get_player_heroes" ->
         <<"/", "p", "l", "a", "y", "e", "r", "s", "/">> \o Decimal(a.fields["account_id"].n) \o <<"/", "h", "e", "r", "o", "e", "s">>
    [] name = "search_players" -> <<"/", "s", "e", "a", "r", "c", "h">>
    [] name = "get_heroes" -> <<"/", "h", "e", "r", "o", "e", "s">>
    [] OTHER -> <<"/", "p", "r", "o", "M", "a", "t", "c", "h", "e", "s">>

\* The query parameters a direct tool sends for the arguments a, the API key
\* aside.
DirectParams(name, a) ==
  CASE name = "get_player_matches" ->
         [NoParams EXCEPT
            !["limit"] = IF a.fields["limit"].t = "undefined"
                         THEN Num(DocumentedDefaultLimit) ELSE a.fields["limit"],
            !["hero_id"] = a.fields["hero_id"]]
    [] name = "search_players" -> [NoParams EXCEPT !["q"] = a.fields["query"]]
    [] OTHER -> NoParams

\* C27: the request of a direct tool is built from the caller's arguments
\* alone: get_player_matches requests /players/{account_id}/matches with the
\* caller's limit (20 when none is given) and hero_id and no other parameter
\* of the caller; the other tools put their identifier into the path, or
\* their query into q, as given.
C27_DirectArguments ==
  \A c \in CallIds :
    LET call == calls[c]
    IN (call.name \in ToolNames \ { "natural_query" } /\ call.request # NoRequest)
       => /\ call.request.method = "GET"
          /\ call.request.url = baseURL \o DirectEndpoint(call.name, call.args)
          /\ \A f \in ParamFields \ { "api_key" } :
               call.request.params[f] = DirectParams(call.name, call.args)[f]

\* get_player_matches {account_id: 7} has requested /players/7/matches with
\* limit 20 and no hero, and has been answered.
C27_Witness ==
  \E c \in CallIds :
    /\ calls[c].pc = "done"
    /\ calls[c].name = "get_player_matches"
    /\ calls[c].args = Args_account7
    /\ calls[c].request.url = baseURL \o <<"/", "p", "l", "a", "y", "e", "r", "s", "/", "7", "/", "m", "a", "t", "c", "h", "e", "s">>
    /\ calls[c].request.params["limit"] = Num(20)
    /\ calls[c].request.params["hero_id"] = Undef
    /\ calls[c].settled.kind = "resolved"

\* ------------------------------------------ claims on the logged error

\* C30: for every rejected request, the error in the api_call log entry of
\* the client has the kind and the status of the error the client throws for
\* that request.
C30_LoggedAsThrown ==
  \A c \in CallIds :
    LET call == calls[c]
    IN call.settled.kind = "rejected"
       => \A i \in 1..Len(call.logs) :
            call.logs[i].type = "api_call"
            => /\ call.logs[i].error.name = call.thrown.name
               /\ call.logs[i].error.statusCode = call.thrown.statusCode

\* --------------------------------------- claims on the caller's options

\* The options object of the caller once the client method has settled.
\* getPlayerMatches hands options itself to makeRequest as params, and
\* makeRequest assigns params.api_key on that object and hands the same object
\* to axios: the object of the request is the object of the caller.
OptionsAfterCall(call) == call.request.params

\* C29: when getPlayerMatches(id, options) has settled, options has the
\* fields and the values the caller gave it ({limit, hero_id}), with a key
\* configured or without.
C29_OptionsUnchanged ==
  \A c \in CallIds :
    LET call == calls[c]
    IN (call.op = "getPlayerMatches" /\ call.settled.kind # "pending")
       => OptionsAfterCall(call) = GivenParams(call)

\* ------------------------------------------------------ overlapping calls
\* The handler is async and the server awaits no call before it takes the
\* next: several invocations run at once, each with its own locals and its
\* own pending axios.get.

MaxOverlap == 2

OverlapIds == 1..MaxOverlap

\* The tool calls sent while others are in flight: two that reach the client
\* (one direct, one through natural_query), one refused by the schema, one
\* answered without the client.
OverlapInvocations ==
  { [name |-> "get_match", args |-> Args_match5],
    [name |-> "get_match", args |-> ArgsEmpty],
    [name |-> "natural_query", args |-> With(ArgsEmpty, "query", Str(T_heroes(Decimal(7))))],
    [name |-> "natural_query", args |-> With(ArgsEmpty, "query", Str(<<"H", "e", "l", "l", "o", " ", "W", "o", "r", "l", "d">>))] }

\* The rejections of axios.get met while calls overlap.
OverlapErrors == { E_timeout, E_notFound }

InitOverlap ==
  /\ query = <<>>
  /\ parsed = NoResult
  /\ calls = [c \in OverlapIds |-> IdleCall]
  /\ apiKey \in ApiKeys
  /\ nodeEnv \in NodeEnvs

\* The request of call c settles: axios.get resolves or rejects.
Settle(c) ==
  \/ \E resp \in Responses : AxiosResolve(c, resp)
  \/ \E e \in OverlapErrors : AxiosReject(c, e)

NextOverlap ==
  \E c \in OverlapIds :
    \/ \E i \in OverlapInvocations : CallTool(c, i.name, i.args)
    \/ Settle(c)
    \/ Respond(c)

SpecOverlap == InitOverlap /\ [][NextOverlap]_vars

\* axios settles every request it was given: with the reply, with a network
\* error, or at the latest when the timer of the timeout option (this.timeout)
\* runs out; the event loop then runs the continuation of the await, and the
\* transport sends every response it is handed.
Fairness == \A c \in OverlapIds : WF_vars(Settle(c)) /\ WF_vars(Respond(c))

SpecLive == SpecOverlap /\ Fairness

\* ------------------------------------------- claims on overlapping calls

\* The tool name, the arguments and the settlement of the request of a call.
Invocation(call) == <<call.name, call.args, call.settled>>

C22_OwnReply ==
  [][ \A c \in OverlapIds :
        /\ calls'[c] # calls[c] => \A d \in OverlapIds \ { c } : calls'[d] = calls[d]
        /\ (calls[c].pc = "awaiting" /\ calls'[c].pc = "done")
           => /\ Invocation(calls'[c])[1] = calls[c].name
              /\ Invocation(calls'[c])[2] = calls[c].args
              /\ calls'[c].request = calls[c].request
              /\ calls'[c].settled.kind # "pending"
              /\ calls'[c].settled.kind = "resolved"
                   => calls'[c].response =
                        SuccessResponse(Text(calls[c].label,
                                             JSONstringify(calls'[c].settled.data),
                                             NoDetailsJson))
              /\ calls'[c].settled.kind = "rejected"
                   => /\ calls'[c].thrown = ThrownApiError(calls'[c].settled.error)
                      /\ calls'[c].response = ErrorResponse(ErrorText(calls'[c].thrown)) ]_vars

\* One call has been answered with the hero list while the request of another
\* call, started with other arguments, is still in flight.
C22_Witness ==
  \E c, d \in OverlapIds :
    /\ calls[c].pc = "done"
    /\ calls[c].settled.data = HeroList
    /\ calls[c].response.text.payload = JSONstringify(HeroList)
    /\ calls[d].pc = "awaiting"
    /\ calls[d].settled = NoSettle
    /\ calls[d].request # calls[c].request

\* C23: a call that waits for the client is never taken back, and its request
\* settles (resolved, or rejected and thrown as APIError or TimeoutError),
\* after which the call has returned its envelope; every invocation that was
\* started ends with a response.
C23_EventuallyResponds ==
  /\ [][ \A c \in OverlapIds :
           calls[c].pc = "awaiting" => calls'[c].pc \in { "awaiting", "done" } ]_vars
  /\ \A c \in OverlapIds :
       (calls[c].pc = "awaiting")
         ~> (/\ calls[c].pc = "done"
             /\ calls[c].settled.kind \in { "resolved", "rejected" }
             /\ calls[c].settled.kind = "rejected"
                  => calls[c].thrown.name \in { "APIError", "TimeoutError" }
             /\ calls[c].outcome = "returned"
             /\ calls[c].response.content = "text")

\* The timer of a request ran out, and the call has returned its envelope.
C23_Witness ==
  \E c \in OverlapIds :
    /\ calls[c].pc = "done"
    /\ calls[c].nrequests = 1
    /\ calls[c].settled.error = E_timeout
    /\ calls[c].thrown.code = "TIMEOUT_ERROR"
    /\ calls[c].outcome = "returned"
    /\ calls[c].response.isError

\* ------------------------------------------------------------- dispatcher

\* The dispatcher on its own: one query text, parsed once.
InitDispatch ==
  /\ query \in Inputs
  /\ parsed = NoResult
  /\ calls = [c \in CallIds |-> IdleCall]
  /\ apiKey = ApiKeyUnset
  /\ nodeEnv = "production"

ParseQuery ==
  /\ parsed = NoResult
  /\ parsed' = parseNaturalQuery(query)
  /\ UNCHANGED <<query, calls, apiKey, nodeEnv>>

NextDispatch == ParseQuery

SpecDispatch == InitDispatch /\ [][NextDispatch]_vars

\* ------------------------------------------------- claims: the dispatcher

Parsed == parsed # NoResult

GetMatch(n) == [type |-> "get_match", params |-> [match_id |-> n]]
GetPlayer(n) == [type |-> "get_player", params |-> [account_id |-> n]]
SearchPlayers(nm) == [type |-> "search_players", params |-> [query |-> nm]]
RecentMatches(n) == [type |-> "get_player_recent_matches", params |-> [account_id |-> n]]
PlayerHeroes(n) == [type |-> "get_player_heroes", params |-> [account_id |-> n]]
Search(q) == [type |-> "search", params |-> [query |-> q]]

\* s holds the keyword w somewhere, in any letter case.
HasWord(s, w) == \E i \in 1..Len(s) : Lit(w, s, {i}) # {}

\* C1: for every positive integer N, the text "recent matches for player N"
\* is dispatched to get_player_recent_matches with account id N.
C1_RecentMatchesForPlayer ==
  \A n \in 1..MaxN :
    (Parsed /\ query = T_recentFor(Decimal(n))) => parsed = RecentMatches(n)

\* C2: for every positive integer N, "heroes for player N" and
\* "player N heroes" are both dispatched to get_player_heroes with account id N.
C2_HeroesBothOrders ==
  \A n \in 1..MaxN :
    (Parsed /\ query \in { T_heroesFor(Decimal(n)), T_playerHeroes(Decimal(n)) })
      => parsed = PlayerHeroes(n)

\* C3: for every positive integer N written without leading zeros, the texts
\* "match N", "game N", "match id N" and "game id N", alone or after leading
\* words (and whatever follows them), are dispatched to get_match with match
\* identifier N.
C3_MatchOrGameId ==
  \A n \in 1..MaxN : \A pre \in LeadingWords \cup { P_re, P_userBob } : \A suf \in Suffixes :
    (Parsed /\ query \in { pre \o T_match(Decimal(n)) \o suf, pre \o T_game(Decimal(n)) \o suf,
                           pre \o T_matchId(Decimal(n)) \o suf, pre \o T_gameId(Decimal(n)) \o suf })
      => parsed = GetMatch(n)

C3_Witness ==
  /\ query = <<"s", "h", "o", "w", " ", "m", "e", " ">> \o T_game(Decimal(10))
  /\ parsed = GetMatch(10)

\* The higher-priority keywords that C4 excludes from the text.
HasMatchRecentOrHeroesWord(s) ==
  \/ HasWord(s, W_match) \/ HasWord(s, W_game)
  \/ HasWord(s, W_recent) \/ HasWord(s, <<"h", "e", "r", "o">>)

PlayerIdTexts(n) ==
  { pre \o ph \o suf : pre \in Prefixes, suf \in Suffixes,
                       ph \in { T_player(Decimal(n)), T_user(Decimal(n)), T_playerId(Decimal(n)) } }

\* C4 as stated: for every positive integer N, "player N", "user N" or
\* "player id N" in a text with no match/game, recent-matches or heroes
\* keyword is dispatched to get_player with account identifier N.
C4_Original ==
  \A n \in 1..MaxN :
    (Parsed /\ query \in PlayerIdTexts(n) /\ ~HasMatchRecentOrHeroesWord(query))
      => parsed = GetPlayer(n)

\* C4 as amended: the same, for texts that in addition hold no quoted name
\* after player/user (the quoted-name pattern is tried before the player id).
C4_PlayerId ==
  \A n \in 1..MaxN :
    (/\ Parsed
     /\ query \in PlayerIdTexts(n)
     /\ ~HasMatchRecentOrHeroesWord(query)
     /\ exec("playerNamePattern", query) = NoMatch)
      => parsed = GetPlayer(n)

C4_Witness ==
  /\ query = <<"f", "i", "n", "d", " ">> \o T_playerId(Decimal(11)) \o S_please
  /\ parsed = GetPlayer(11)

FindNamed(nm) == <<"f", "i", "n", "d", " ">> \o T_named(nm)

OperationTags == { "get_match", "get_player", "search_players",
                   "get_player_recent_matches", "get_player_heroes", "search" }

NoPatternMatches(s) ==
  /\ exec("matchIdPattern", s) = NoMatch
  /\ exec("playerNamePattern", s) = NoMatch
  /\ exec("playerIdPattern", s) = NoMatch
  /\ exec("recentMatchesPattern", s) = NoMatch
  /\ exec("playerHeroesPattern", s) = NoMatch

\* C6: every query has a result whose operation is one of the six tags; when
\* none of the five patterns matches, and only then, the result is search
\* carrying the whole query text unchanged.
C6_FallbackVerbatim ==
  Parsed =>
    /\ parsed.type \in OperationTags
    /\ NoPatternMatches(query) => parsed = Search(query)
    /\ parsed.type = "search" => (NoPatternMatches(query) /\ parsed.params.query = query)

C6_Witness ==
  /\ query = <<"S", "H", "O", "W", " ", "M", "E", " ">> \o <<"H", "e", "l", "l", "o", " ", "W", "o", "r", "l", "d">> \o S_please
  /\ parsed = Search(query)

\* C7: a query in which the match-id pattern matches is dispatched to
\* get_match with the integer of that (leftmost) match, whatever player,
\* recent-matches or heroes phrase it also holds; "match 5 ..." gives 5.
C7_MatchIdFirst ==
  Parsed =>
    /\ exec("matchIdPattern", query) # NoMatch
         => parsed = GetMatch(parseInt(exec("matchIdPattern", query)))
    /\ \A ph \in Phrases : \A suf \in Suffixes :
         query = P_match5 \o ph \o suf => parsed = GetMatch(5)

C7_Witness ==
  /\ query = P_match5 \o T_player(Decimal(9))
  /\ parsed = GetMatch(5)

\* C24: for every input text, the dispatcher of the server returns the
\* operation and the parameters that the reference dispatcher of the unit
\* test returns for the same text.
C24_SameAsReference ==
  Parsed => parsed = referenceParseNaturalQuery(query)

\* The text s with its letters in upper case.
Upper(c) == IF \E k \in 1..26 : LowerChars[k] = c
            THEN UpperChars[CHOOSE k \in 1..26 : LowerChars[k] = c]
            ELSE c

toUpperCase(s) == [k \in 1..Len(s) |-> Upper(s[k])]

\* The text s with the letter case changed: all upper or all lower.
Recase(f, s) == IF f = "upper" THEN toUpperCase(s) ELSE toLowerCase(s)

\* w occurs in s letter for letter, in the same letter case.
OccursIn(w, s) ==
  \E i \in 1..(Len(s) - Len(w) + 1) : SubSeq(s, i, i + Len(w) - 1) = w

\* The result r for a text recased by f against the result p for the text
\* itself: the same operation, the same number, and a text parameter that is
\* the recased text parameter of p.
SameUnderCase(p, r, f) ==
  /\ r.type = p.type
  /\ p.type \in { "get_match", "get_player", "get_player_recent_matches", "get_player_heroes" }
       => r.params = p.params
  /\ p.type \in { "search_players", "search" }
       => r.params.query = Recase(f, p.params.query)

\* C28: writing the text in upper or in lower case changes neither the
\* operation nor the number returned; the quoted name and the fallback query
\* are returned in the letter case of the text they were taken from.
C28_CaseInsensitive ==
  Parsed =>
    /\ \A f \in { "upper", "lower" } :
         SameUnderCase(parsed, parseNaturalQuery(Recase(f, query)), f)
    /\ parsed.type = "search" => parsed.params.query = query
    /\ parsed.type = "search_players" => OccursIn(parsed.params.query, query)

\* user  NAMED 'TestPlayer' is dispatched to search_players as its lower-case
\* and upper-case texts are, and the name keeps the capitals of its text.
C28_Witness ==
  /\ query = T_userQuoted(<<"T", "e", "s", "t", "P", "l", "a", "y", "e", "r">>)
  /\ toLowerCase(query) # query
  /\ parsed = SearchPlayers(<<"T", "e", "s", "t", "P", "l", "a", "y", "e", "r">>)
  /\ parseNaturalQuery(toLowerCase(query)) = SearchPlayers(<<"t", "e", "s", "t", "p", "l", "a", "y", "e", "r">>)
  /\ parseNaturalQuery(toUpperCase(query)) = SearchPlayers(<<"T", "E", "S", "T", "P", "L", "A", "Y", "E", "R">>)

====
